---- MODULE Spec2Model ----
(***************************************************************************)
(* Model of the phala-cloud-sdk core: PhalaCloud.monitorDeploymentStatus   *)
(* (the deployment status polling loop) running on top of                  *)
(* ApiClient.executeWithRetry (the retrying transport).                    *)
(*                                                                         *)
(* Each monitor call is a session i.  Its local variables live in          *)
(* monitor[i], the local variables of the executeWithRetry call it is      *)
(* currently awaiting live in transport[i], and observer[i] records what   *)
(* the caller-supplied callbacks, the HTTP layer and the timers saw.       *)
(* The suspension points of the async code (await of an HTTP request or of *)
(* a setTimeout) delimit the actions.  deploy[i] holds the locals of a     *)
(* deploy, upgrade or updateCompose call and codec the direct calls of     *)
(* encryptSecrets.                                                         *)
(***************************************************************************)
EXTENDS Integers, Sequences, FiniteSets, TLC

VARIABLES monitor, transport, observer, deploy, codec

vars == <<monitor, transport, observer, deploy, codec>>

----------------------------------------------------------------------------
(* Bounds of the model *)

\* largest maxRetries option (maxAttempts) a session is started with
MaxAttempts == 4

\* largest maxRetries an ApiClient is constructed with
MaxTransportRetries == 3

\* deploy calls made one after the other on one instance
MaxCalls == 2

\* largest maxRetries of two sessions monitoring at the same time
MaxConcurrentAttempts == 3

\* direct calls of encryptSecrets with the same arguments
MaxEncryptCalls == 2

\* largest maxRetries (maxAttempts) of a monitor call whose termination is checked
MaxLiveAttempts == 3

\* largest maxRetries (maxAttempts) of a monitor call with throwing callbacks
MaxThrowingAttempts == 3

\* sessions running in the specification Spec
Sessions == {1}

\* values of the interval option (ms): one even, one odd (interval * 0.5 ends
\* on a half)
Intervals == {1000, 5001}

\* time (ms) one HTTP request may take before it settles
ReqDurations == {200, 6000}

\* HTTP statuses of error responses; NoResponse stands for err.response undefined
ErrStatuses == {404, 500, 503}

----------------------------------------------------------------------------
(* Program constants *)

\* const maxConsecutiveErrors = 3
maxConsecutiveErrors == 3

\* private readonly maxRetries: number = 2 (PhalaCloud builds new ApiClient(apiUrl, apiKey))
DefaultTransportRetries == 2

----------------------------------------------------------------------------
(* Strings.  A string is the sequence of its UTF-16 code units, as         *)
(* String.prototype.charCodeAt returns them: "Ab" is << 65, 98 >>, and a   *)
(* character beyond U+FFFF is the two code units of its surrogate pair.    *)

\* the code units of the surrogates: D800 to DBFF lead a pair, DC00 to DFFF
\* end one
IsHighSurrogate(u) == u >= 55296 /\ u <= 56319
IsLowSurrogate(u) == u >= 56320 /\ u <= 57343

\* whether a surrogate pair starts at position k of str
PairAt(str, k) == k < Len(str) /\ IsHighSurrogate(str[k]) /\ IsLowSurrogate(str[k + 1])

\* the code points of str from position k on; a surrogate without its
\* partner is a code point of its own
RECURSIVE CodePointsFrom(_, _)
CodePointsFrom(str, k) ==
    IF k > Len(str) THEN <<>>
    ELSE IF PairAt(str, k)
    THEN << 65536 + 1024 * (str[k] - 55296) + (str[k + 1] - 56320) >>
            \o CodePointsFrom(str, k + 2)
    ELSE << str[k] >> \o CodePointsFrom(str, k + 1)

CodePoints(str) == CodePointsFrom(str, 1)

\* the code units of one code point
CodeUnits(cp) ==
    IF cp < 65536 THEN << cp >>
    ELSE << 55296 + ((cp - 65536) \div 1024), 56320 + ((cp - 65536) % 1024) >>

\* the code units of a sequence of code points
RECURSIVE Utf16(_)
Utf16(cps) == IF cps = <<>> THEN <<>> ELSE CodeUnits(Head(cps)) \o Utf16(Tail(cps))

\* toLowerCase is the Unicode Default Case Conversion over the tables of the
\* runtime's Unicode version. The case mappings and the Cased and
\* Case_Ignorable properties below are those of the Unicode Character
\* Database, version 17.0.

\* the simple lowercase mappings beyond ASCII, as << first, last, step,
\* offset >>: the code points first, first + step, ... up to last become the
\* code point offset further
LowerRanges ==
    {
      << 192, 214, 1, 32 >>, << 216, 222, 1, 32 >>, << 256, 302, 2, 1 >>, << 306, 310, 2, 1 >>,
      << 313, 327, 2, 1 >>, << 330, 374, 2, 1 >>, << 376, 376, 1, -121 >>, << 377, 381, 2, 1 >>,
      << 385, 385, 1, 210 >>, << 386, 388, 2, 1 >>, << 390, 390, 1, 206 >>, << 391, 391, 1, 1 >>,
      << 393, 394, 1, 205 >>, << 395, 395, 1, 1 >>, << 398, 398, 1, 79 >>, << 399, 399, 1, 202 >>,
      << 400, 400, 1, 203 >>, << 401, 401, 1, 1 >>, << 403, 403, 1, 205 >>, << 404, 404, 1, 207 >>,
      << 406, 406, 1, 211 >>, << 407, 407, 1, 209 >>, << 408, 408, 1, 1 >>, << 412, 412, 1, 211 >>,
      << 413, 413, 1, 213 >>, << 415, 415, 1, 214 >>, << 416, 420, 2, 1 >>, << 422, 422, 1, 218 >>,
      << 423, 423, 1, 1 >>, << 425, 425, 1, 218 >>, << 428, 428, 1, 1 >>, << 430, 430, 1, 218 >>,
      << 431, 431, 1, 1 >>, << 433, 434, 1, 217 >>, << 435, 437, 2, 1 >>, << 439, 439, 1, 219 >>,
      << 440, 440, 1, 1 >>, << 444, 444, 1, 1 >>, << 452, 452, 1, 2 >>, << 453, 453, 1, 1 >>,
      << 455, 455, 1, 2 >>, << 456, 456, 1, 1 >>, << 458, 458, 1, 2 >>, << 459, 475, 2, 1 >>,
      << 478, 494, 2, 1 >>, << 497, 497, 1, 2 >>, << 498, 500, 2, 1 >>, << 502, 502, 1, -97 >>,
      << 503, 503, 1, -56 >>, << 504, 542, 2, 1 >>, << 544, 544, 1, -130 >>, << 546, 562, 2, 1 >>,
      << 570, 570, 1, 10795 >>, << 571, 571, 1, 1 >>, << 573, 573, 1, -163 >>,
      << 574, 574, 1, 10792 >>, << 577, 577, 1, 1 >>, << 579, 579, 1, -195 >>,
      << 580, 580, 1, 69 >>, << 581, 581, 1, 71 >>, << 582, 590, 2, 1 >>, << 880, 882, 2, 1 >>,
      << 886, 886, 1, 1 >>, << 895, 895, 1, 116 >>, << 902, 902, 1, 38 >>, << 904, 906, 1, 37 >>,
      << 908, 908, 1, 64 >>, << 910, 911, 1, 63 >>, << 913, 929, 1, 32 >>, << 931, 939, 1, 32 >>,
      << 975, 975, 1, 8 >>, << 984, 1006, 2, 1 >>, << 1012, 1012, 1, -60 >>,
      << 1015, 1015, 1, 1 >>, << 1017, 1017, 1, -7 >>, << 1018, 1018, 1, 1 >>,
      << 1021, 1023, 1, -130 >>, << 1024, 1039, 1, 80 >>, << 1040, 1071, 1, 32 >>,
      << 1120, 1152, 2, 1 >>, << 1162, 1214, 2, 1 >>, << 1216, 1216, 1, 15 >>,
      << 1217, 1229, 2, 1 >>, << 1232, 1326, 2, 1 >>, << 1329, 1366, 1, 48 >>,
      << 4256, 4293, 1, 7264 >>, << 4295, 4295, 1, 7264 >>, << 4301, 4301, 1, 7264 >>,
      << 5024, 5103, 1, 38864 >>, << 5104, 5109, 1, 8 >>, << 7305, 7305, 1, 1 >>,
      << 7312, 7354, 1, -3008 >>, << 7357, 7359, 1, -3008 >>, << 7680, 7828, 2, 1 >>,
      << 7838, 7838, 1, -7615 >>, << 7840, 7934, 2, 1 >>, << 7944, 7951, 1, -8 >>,
      << 7960, 7965, 1, -8 >>, << 7976, 7983, 1, -8 >>, << 7992, 7999, 1, -8 >>,
      << 8008, 8013, 1, -8 >>, << 8025, 8031, 2, -8 >>, << 8040, 8047, 1, -8 >>,
      << 8072, 8079, 1, -8 >>, << 8088, 8095, 1, -8 >>, << 8104, 8111, 1, -8 >>,
      << 8120, 8121, 1, -8 >>, << 8122, 8123, 1, -74 >>, << 8124, 8124, 1, -9 >>,
      << 8136, 8139, 1, -86 >>, << 8140, 8140, 1, -9 >>, << 8152, 8153, 1, -8 >>,
      << 8154, 8155, 1, -100 >>, << 8168, 8169, 1, -8 >>, << 8170, 8171, 1, -112 >>,
      << 8172, 8172, 1, -7 >>, << 8184, 8185, 1, -128 >>, << 8186, 8187, 1, -126 >>,
      << 8188, 8188, 1, -9 >>, << 8486, 8486, 1, -7517 >>, << 8490, 8490, 1, -8383 >>,
      << 8491, 8491, 1, -8262 >>, << 8498, 8498, 1, 28 >>, << 8544, 8559, 1, 16 >>,
      << 8579, 8579, 1, 1 >>, << 9398, 9423, 1, 26 >>, << 11264, 11311, 1, 48 >>,
      << 11360, 11360, 1, 1 >>, << 11362, 11362, 1, -10743 >>, << 11363, 11363, 1, -3814 >>,
      << 11364, 11364, 1, -10727 >>, << 11367, 11371, 2, 1 >>, << 11373, 11373, 1, -10780 >>,
      << 11374, 11374, 1, -10749 >>, << 11375, 11375, 1, -10783 >>, << 11376, 11376, 1, -10782 >>,
      << 11378, 11378, 1, 1 >>, << 11381, 11381, 1, 1 >>, << 11390, 11391, 1, -10815 >>,
      << 11392, 11490, 2, 1 >>, << 11499, 11501, 2, 1 >>, << 11506, 11506, 1, 1 >>,
      << 42560, 42604, 2, 1 >>, << 42624, 42650, 2, 1 >>, << 42786, 42798, 2, 1 >>,
      << 42802, 42862, 2, 1 >>, << 42873, 42875, 2, 1 >>, << 42877, 42877, 1, -35332 >>,
      << 42878, 42886, 2, 1 >>, << 42891, 42891, 1, 1 >>, << 42893, 42893, 1, -42280 >>,
      << 42896, 42898, 2, 1 >>, << 42902, 42920, 2, 1 >>, << 42922, 42922, 1, -42308 >>,
      << 42923, 42923, 1, -42319 >>, << 42924, 42924, 1, -42315 >>, << 42925, 42925, 1, -42305 >>,
      << 42926, 42926, 1, -42308 >>, << 42928, 42928, 1, -42258 >>, << 42929, 42929, 1, -42282 >>,
      << 42930, 42930, 1, -42261 >>, << 42931, 42931, 1, 928 >>, << 42932, 42946, 2, 1 >>,
      << 42948, 42948, 1, -48 >>, << 42949, 42949, 1, -42307 >>, << 42950, 42950, 1, -35384 >>,
      << 42951, 42953, 2, 1 >>, << 42955, 42955, 1, -42343 >>, << 42956, 42970, 2, 1 >>,
      << 42972, 42972, 1, -42561 >>, << 42997, 42997, 1, 1 >>, << 65313, 65338, 1, 32 >>,
      << 66560, 66599, 1, 40 >>, << 66736, 66771, 1, 40 >>, << 66928, 66964, 2, 39 >>,
      << 66929, 66937, 2, 39 >>, << 66941, 66953, 2, 39 >>, << 66957, 66961, 2, 39 >>,
      << 66965, 66965, 1, 39 >>, << 68736, 68786, 1, 64 >>, << 68944, 68965, 1, 32 >>,
      << 71840, 71871, 1, 32 >>, << 93760, 93791, 1, 32 >>, << 93856, 93880, 1, 27 >>,
      << 125184, 125217, 1, 34 >> }

\* the cased letters that are not case-ignorable, as << first, last >>
CasedRanges ==
    {
      << 65, 90 >>, << 97, 122 >>, << 170, 170 >>, << 181, 181 >>, << 186, 186 >>, << 192, 214 >>,
      << 216, 246 >>, << 248, 442 >>, << 444, 447 >>, << 452, 659 >>, << 662, 687 >>,
      << 880, 883 >>, << 886, 887 >>, << 891, 893 >>, << 895, 895 >>, << 902, 902 >>,
      << 904, 906 >>, << 908, 908 >>, << 910, 929 >>, << 931, 1013 >>, << 1015, 1153 >>,
      << 1162, 1327 >>, << 1329, 1366 >>, << 1376, 1416 >>, << 4256, 4293 >>, << 4295, 4295 >>,
      << 4301, 4301 >>, << 4304, 4346 >>, << 4349, 4351 >>, << 5024, 5109 >>, << 5112, 5117 >>,
      << 7296, 7306 >>, << 7312, 7354 >>, << 7357, 7359 >>, << 7424, 7467 >>, << 7531, 7543 >>,
      << 7545, 7578 >>, << 7680, 7957 >>, << 7960, 7965 >>, << 7968, 8005 >>, << 8008, 8013 >>,
      << 8016, 8023 >>, << 8025, 8025 >>, << 8027, 8027 >>, << 8029, 8029 >>, << 8031, 8061 >>,
      << 8064, 8116 >>, << 8118, 8124 >>, << 8126, 8126 >>, << 8130, 8132 >>, << 8134, 8140 >>,
      << 8144, 8147 >>, << 8150, 8155 >>, << 8160, 8172 >>, << 8178, 8180 >>, << 8182, 8188 >>,
      << 8450, 8450 >>, << 8455, 8455 >>, << 8458, 8467 >>, << 8469, 8469 >>, << 8473, 8477 >>,
      << 8484, 8484 >>, << 8486, 8486 >>, << 8488, 8488 >>, << 8490, 8493 >>, << 8495, 8500 >>,
      << 8505, 8505 >>, << 8508, 8511 >>, << 8517, 8521 >>, << 8526, 8526 >>, << 8544, 8575 >>,
      << 8579, 8580 >>, << 9398, 9449 >>, << 11264, 11387 >>, << 11390, 11492 >>,
      << 11499, 11502 >>, << 11506, 11507 >>, << 11520, 11557 >>, << 11559, 11559 >>,
      << 11565, 11565 >>, << 42560, 42605 >>, << 42624, 42651 >>, << 42786, 42863 >>,
      << 42865, 42887 >>, << 42891, 42894 >>, << 42896, 42972 >>, << 42997, 42998 >>,
      << 43002, 43002 >>, << 43824, 43866 >>, << 43872, 43880 >>, << 43888, 43967 >>,
      << 64256, 64262 >>, << 64275, 64279 >>, << 65313, 65338 >>, << 65345, 65370 >>,
      << 66560, 66639 >>, << 66736, 66771 >>, << 66776, 66811 >>, << 66928, 66938 >>,
      << 66940, 66954 >>, << 66956, 66962 >>, << 66964, 66965 >>, << 66967, 66977 >>,
      << 66979, 66993 >>, << 66995, 67001 >>, << 67003, 67004 >>, << 68736, 68786 >>,
      << 68800, 68850 >>, << 68944, 68965 >>, << 68976, 68997 >>, << 71840, 71903 >>,
      << 93760, 93823 >>, << 93856, 93880 >>, << 93883, 93907 >>, << 119808, 119892 >>,
      << 119894, 119964 >>, << 119966, 119967 >>, << 119970, 119970 >>, << 119973, 119974 >>,
      << 119977, 119980 >>, << 119982, 119993 >>, << 119995, 119995 >>, << 119997, 120003 >>,
      << 120005, 120069 >>, << 120071, 120074 >>, << 120077, 120084 >>, << 120086, 120092 >>,
      << 120094, 120121 >>, << 120123, 120126 >>, << 120128, 120132 >>, << 120134, 120134 >>,
      << 120138, 120144 >>, << 120146, 120485 >>, << 120488, 120512 >>, << 120514, 120538 >>,
      << 120540, 120570 >>, << 120572, 120596 >>, << 120598, 120628 >>, << 120630, 120654 >>,
      << 120656, 120686 >>, << 120688, 120712 >>, << 120714, 120744 >>, << 120746, 120770 >>,
      << 120772, 120779 >>, << 122624, 122633 >>, << 122635, 122654 >>, << 122661, 122666 >>,
      << 125184, 125251 >>, << 127280, 127305 >>, << 127312, 127337 >>, << 127344, 127369 >> }

\* the case-ignorable code points, as << first, last >>
CaseIgnorableRanges ==
    {
      << 39, 39 >>, << 46, 46 >>, << 58, 58 >>, << 94, 94 >>, << 96, 96 >>, << 168, 168 >>,
      << 173, 173 >>, << 175, 175 >>, << 180, 180 >>, << 183, 184 >>, << 688, 879 >>,
      << 884, 885 >>, << 890, 890 >>, << 900, 901 >>, << 903, 903 >>, << 1155, 1161 >>,
      << 1369, 1369 >>, << 1375, 1375 >>, << 1425, 1469 >>, << 1471, 1471 >>, << 1473, 1474 >>,
      << 1476, 1477 >>, << 1479, 1479 >>, << 1524, 1524 >>, << 1536, 1541 >>, << 1552, 1562 >>,
      << 1564, 1564 >>, << 1600, 1600 >>, << 1611, 1631 >>, << 1648, 1648 >>, << 1750, 1757 >>,
      << 1759, 1768 >>, << 1770, 1773 >>, << 1807, 1807 >>, << 1809, 1809 >>, << 1840, 1866 >>,
      << 1958, 1968 >>, << 2027, 2037 >>, << 2042, 2042 >>, << 2045, 2045 >>, << 2070, 2093 >>,
      << 2137, 2139 >>, << 2184, 2184 >>, << 2192, 2193 >>, << 2199, 2207 >>, << 2249, 2306 >>,
      << 2362, 2362 >>, << 2364, 2364 >>, << 2369, 2376 >>, << 2381, 2381 >>, << 2385, 2391 >>,
      << 2402, 2403 >>, << 2417, 2417 >>, << 2433, 2433 >>, << 2492, 2492 >>, << 2497, 2500 >>,
      << 2509, 2509 >>, << 2530, 2531 >>, << 2558, 2558 >>, << 2561, 2562 >>, << 2620, 2620 >>,
      << 2625, 2626 >>, << 2631, 2632 >>, << 2635, 2637 >>, << 2641, 2641 >>, << 2672, 2673 >>,
      << 2677, 2677 >>, << 2689, 2690 >>, << 2748, 2748 >>, << 2753, 2757 >>, << 2759, 2760 >>,
      << 2765, 2765 >>, << 2786, 2787 >>, << 2810, 2815 >>, << 2817, 2817 >>, << 2876, 2876 >>,
      << 2879, 2879 >>, << 2881, 2884 >>, << 2893, 2893 >>, << 2901, 2902 >>, << 2914, 2915 >>,
      << 2946, 2946 >>, << 3008, 3008 >>, << 3021, 3021 >>, << 3072, 3072 >>, << 3076, 3076 >>,
      << 3132, 3132 >>, << 3134, 3136 >>, << 3142, 3144 >>, << 3146, 3149 >>, << 3157, 3158 >>,
      << 3170, 3171 >>, << 3201, 3201 >>, << 3260, 3260 >>, << 3263, 3263 >>, << 3270, 3270 >>,
      << 3276, 3277 >>, << 3298, 3299 >>, << 3328, 3329 >>, << 3387, 3388 >>, << 3393, 3396 >>,
      << 3405, 3405 >>, << 3426, 3427 >>, << 3457, 3457 >>, << 3530, 3530 >>, << 3538, 3540 >>,
      << 3542, 3542 >>, << 3633, 3633 >>, << 3636, 3642 >>, << 3654, 3662 >>, << 3761, 3761 >>,
      << 3764, 3772 >>, << 3782, 3782 >>, << 3784, 3790 >>, << 3864, 3865 >>, << 3893, 3893 >>,
      << 3895, 3895 >>, << 3897, 3897 >>, << 3953, 3966 >>, << 3968, 3972 >>, << 3974, 3975 >>,
      << 3981, 3991 >>, << 3993, 4028 >>, << 4038, 4038 >>, << 4141, 4144 >>, << 4146, 4151 >>,
      << 4153, 4154 >>, << 4157, 4158 >>, << 4184, 4185 >>, << 4190, 4192 >>, << 4209, 4212 >>,
      << 4226, 4226 >>, << 4229, 4230 >>, << 4237, 4237 >>, << 4253, 4253 >>, << 4348, 4348 >>,
      << 4957, 4959 >>, << 5906, 5908 >>, << 5938, 5939 >>, << 5970, 5971 >>, << 6002, 6003 >>,
      << 6068, 6069 >>, << 6071, 6077 >>, << 6086, 6086 >>, << 6089, 6099 >>, << 6103, 6103 >>,
      << 6109, 6109 >>, << 6155, 6159 >>, << 6211, 6211 >>, << 6277, 6278 >>, << 6313, 6313 >>,
      << 6432, 6434 >>, << 6439, 6440 >>, << 6450, 6450 >>, << 6457, 6459 >>, << 6679, 6680 >>,
      << 6683, 6683 >>, << 6742, 6742 >>, << 6744, 6750 >>, << 6752, 6752 >>, << 6754, 6754 >>,
      << 6757, 6764 >>, << 6771, 6780 >>, << 6783, 6783 >>, << 6823, 6823 >>, << 6832, 6877 >>,
      << 6880, 6891 >>, << 6912, 6915 >>, << 6964, 6964 >>, << 6966, 6970 >>, << 6972, 6972 >>,
      << 6978, 6978 >>, << 7019, 7027 >>, << 7040, 7041 >>, << 7074, 7077 >>, << 7080, 7081 >>,
      << 7083, 7085 >>, << 7142, 7142 >>, << 7144, 7145 >>, << 7149, 7149 >>, << 7151, 7153 >>,
      << 7212, 7219 >>, << 7222, 7223 >>, << 7288, 7293 >>, << 7376, 7378 >>, << 7380, 7392 >>,
      << 7394, 7400 >>, << 7405, 7405 >>, << 7412, 7412 >>, << 7416, 7417 >>, << 7468, 7530 >>,
      << 7544, 7544 >>, << 7579, 7679 >>, << 8125, 8125 >>, << 8127, 8129 >>, << 8141, 8143 >>,
      << 8157, 8159 >>, << 8173, 8175 >>, << 8189, 8190 >>, << 8203, 8207 >>, << 8216, 8217 >>,
      << 8228, 8228 >>, << 8231, 8231 >>, << 8234, 8238 >>, << 8288, 8292 >>, << 8294, 8303 >>,
      << 8305, 8305 >>, << 8319, 8319 >>, << 8336, 8348 >>, << 8400, 8432 >>, << 11388, 11389 >>,
      << 11503, 11505 >>, << 11631, 11631 >>, << 11647, 11647 >>, << 11744, 11775 >>,
      << 11823, 11823 >>, << 12293, 12293 >>, << 12330, 12333 >>, << 12337, 12341 >>,
      << 12347, 12347 >>, << 12441, 12446 >>, << 12540, 12542 >>, << 40981, 40981 >>,
      << 42232, 42237 >>, << 42508, 42508 >>, << 42607, 42610 >>, << 42612, 42621 >>,
      << 42623, 42623 >>, << 42652, 42655 >>, << 42736, 42737 >>, << 42752, 42785 >>,
      << 42864, 42864 >>, << 42888, 42890 >>, << 42993, 42996 >>, << 43000, 43001 >>,
      << 43010, 43010 >>, << 43014, 43014 >>, << 43019, 43019 >>, << 43045, 43046 >>,
      << 43052, 43052 >>, << 43204, 43205 >>, << 43232, 43249 >>, << 43263, 43263 >>,
      << 43302, 43309 >>, << 43335, 43345 >>, << 43392, 43394 >>, << 43443, 43443 >>,
      << 43446, 43449 >>, << 43452, 43453 >>, << 43471, 43471 >>, << 43493, 43494 >>,
      << 43561, 43566 >>, << 43569, 43570 >>, << 43573, 43574 >>, << 43587, 43587 >>,
      << 43596, 43596 >>, << 43632, 43632 >>, << 43644, 43644 >>, << 43696, 43696 >>,
      << 43698, 43700 >>, << 43703, 43704 >>, << 43710, 43711 >>, << 43713, 43713 >>,
      << 43741, 43741 >>, << 43756, 43757 >>, << 43763, 43764 >>, << 43766, 43766 >>,
      << 43867, 43871 >>, << 43881, 43883 >>, << 44005, 44005 >>, << 44008, 44008 >>,
      << 44013, 44013 >>, << 64286, 64286 >>, << 64434, 64450 >>, << 65024, 65039 >>,
      << 65043, 65043 >>, << 65056, 65071 >>, << 65106, 65106 >>, << 65109, 65109 >>,
      << 65279, 65279 >>, << 65287, 65287 >>, << 65294, 65294 >>, << 65306, 65306 >>,
      << 65342, 65342 >>, << 65344, 65344 >>, << 65392, 65392 >>, << 65438, 65439 >>,
      << 65507, 65507 >>, << 65529, 65531 >>, << 66045, 66045 >>, << 66272, 66272 >>,
      << 66422, 66426 >>, << 67456, 67461 >>, << 67463, 67504 >>, << 67506, 67514 >>,
      << 68097, 68099 >>, << 68101, 68102 >>, << 68108, 68111 >>, << 68152, 68154 >>,
      << 68159, 68159 >>, << 68325, 68326 >>, << 68900, 68903 >>, << 68942, 68942 >>,
      << 68969, 68973 >>, << 68975, 68975 >>, << 69291, 69292 >>, << 69317, 69317 >>,
      << 69370, 69375 >>, << 69446, 69456 >>, << 69506, 69509 >>, << 69633, 69633 >>,
      << 69688, 69702 >>, << 69744, 69744 >>, << 69747, 69748 >>, << 69759, 69761 >>,
      << 69811, 69814 >>, << 69817, 69818 >>, << 69821, 69821 >>, << 69826, 69826 >>,
      << 69837, 69837 >>, << 69888, 69890 >>, << 69927, 69931 >>, << 69933, 69940 >>,
      << 70003, 70003 >>, << 70016, 70017 >>, << 70070, 70078 >>, << 70089, 70092 >>,
      << 70095, 70095 >>, << 70191, 70193 >>, << 70196, 70196 >>, << 70198, 70199 >>,
      << 70206, 70206 >>, << 70209, 70209 >>, << 70367, 70367 >>, << 70371, 70378 >>,
      << 70400, 70401 >>, << 70459, 70460 >>, << 70464, 70464 >>, << 70502, 70508 >>,
      << 70512, 70516 >>, << 70587, 70592 >>, << 70606, 70606 >>, << 70608, 70608 >>,
      << 70610, 70610 >>, << 70625, 70626 >>, << 70712, 70719 >>, << 70722, 70724 >>,
      << 70726, 70726 >>, << 70750, 70750 >>, << 70835, 70840 >>, << 70842, 70842 >>,
      << 70847, 70848 >>, << 70850, 70851 >>, << 71090, 71093 >>, << 71100, 71101 >>,
      << 71103, 71104 >>, << 71132, 71133 >>, << 71219, 71226 >>, << 71229, 71229 >>,
      << 71231, 71232 >>, << 71339, 71339 >>, << 71341, 71341 >>, << 71344, 71349 >>,
      << 71351, 71351 >>, << 71453, 71453 >>, << 71455, 71455 >>, << 71458, 71461 >>,
      << 71463, 71467 >>, << 71727, 71735 >>, << 71737, 71738 >>, << 71995, 71996 >>,
      << 71998, 71998 >>, << 72003, 72003 >>, << 72148, 72151 >>, << 72154, 72155 >>,
      << 72160, 72160 >>, << 72193, 72202 >>, << 72243, 72248 >>, << 72251, 72254 >>,
      << 72263, 72263 >>, << 72273, 72278 >>, << 72281, 72283 >>, << 72330, 72342 >>,
      << 72344, 72345 >>, << 72544, 72544 >>, << 72546, 72548 >>, << 72550, 72550 >>,
      << 72752, 72758 >>, << 72760, 72765 >>, << 72767, 72767 >>, << 72850, 72871 >>,
      << 72874, 72880 >>, << 72882, 72883 >>, << 72885, 72886 >>, << 73009, 73014 >>,
      << 73018, 73018 >>, << 73020, 73021 >>, << 73023, 73029 >>, << 73031, 73031 >>,
      << 73104, 73105 >>, << 73109, 73109 >>, << 73111, 73111 >>, << 73177, 73177 >>,
      << 73459, 73460 >>, << 73472, 73473 >>, << 73526, 73530 >>, << 73536, 73536 >>,
      << 73538, 73538 >>, << 73562, 73562 >>, << 78896, 78912 >>, << 78919, 78933 >>,
      << 90398, 90409 >>, << 90413, 90415 >>, << 92912, 92916 >>, << 92976, 92982 >>,
      << 92992, 92995 >>, << 93504, 93506 >>, << 93547, 93548 >>, << 94031, 94031 >>,
      << 94095, 94111 >>, << 94176, 94177 >>, << 94179, 94180 >>, << 94194, 94195 >>,
      << 110576, 110579 >>, << 110581, 110587 >>, << 110589, 110590 >>, << 113821, 113822 >>,
      << 113824, 113827 >>, << 118528, 118573 >>, << 118576, 118598 >>, << 119143, 119145 >>,
      << 119155, 119170 >>, << 119173, 119179 >>, << 119210, 119213 >>, << 119362, 119364 >>,
      << 121344, 121398 >>, << 121403, 121452 >>, << 121461, 121461 >>, << 121476, 121476 >>,
      << 121499, 121503 >>, << 121505, 121519 >>, << 122880, 122886 >>, << 122888, 122904 >>,
      << 122907, 122913 >>, << 122915, 122916 >>, << 122918, 122922 >>, << 122928, 122989 >>,
      << 123023, 123023 >>, << 123184, 123197 >>, << 123566, 123566 >>, << 123628, 123631 >>,
      << 124139, 124143 >>, << 124398, 124399 >>, << 124643, 124643 >>, << 124646, 124646 >>,
      << 124654, 124655 >>, << 124661, 124661 >>, << 124671, 124671 >>, << 125136, 125142 >>,
      << 125252, 125259 >>, << 127995, 127999 >>, << 917505, 917505 >>, << 917536, 917631 >>,
      << 917760, 917999 >> }

IsCased(cp) == \E r \in CasedRanges : r[1] <= cp /\ cp <= r[2]
IsCaseIgnorable(cp) == \E r \in CaseIgnorableRanges : r[1] <= cp /\ cp <= r[2]

\* the range of LowerRanges a code point falls in, if any
LowerRangeOf(cp) ==
    { r \in LowerRanges : r[1] <= cp /\ cp <= r[2] /\ (cp - r[1]) % r[3] = 0 }

\* the condition Final_Sigma of the Unicode standard on position i: a cased
\* letter comes before, with nothing but case-ignorable code points in
\* between, and no cased letter comes after in that manner
FinalSigma(cps, i) ==
    /\ \E j \in 1..(i - 1) :
          IsCased(cps[j]) /\ \A l \in (j + 1)..(i - 1) : IsCaseIgnorable(cps[l])
    /\ ~\E j \in (i + 1)..Len(cps) :
          IsCased(cps[j]) /\ \A l \in (i + 1)..(j - 1) : IsCaseIgnorable(cps[l])

\* the code points the code point at position i becomes in lower case: the
\* capital sigma (U+03A3) becomes the final sigma (U+03C2) or the small sigma
\* (U+03C3), the capital I with dot above (U+0130) a small i and a combining
\* dot above, any other code point its simple mapping
ToLowerAt(cps, i) ==
    IF cps[i] < 128
    THEN << IF cps[i] >= 65 /\ cps[i] <= 90 THEN cps[i] + 32 ELSE cps[i] >>
    ELSE IF cps[i] = 931 THEN << IF FinalSigma(cps, i) THEN 962 ELSE 963 >>
    ELSE IF cps[i] = 304 THEN << 105, 775 >>
    ELSE IF LowerRangeOf(cps[i]) = {} THEN << cps[i] >>
    ELSE << cps[i] + (CHOOSE r \in LowerRangeOf(cps[i]) : TRUE)[4] >>

RECURSIVE ToLowerFrom(_, _)
ToLowerFrom(cps, i) ==
    IF i > Len(cps) THEN <<>> ELSE ToLowerAt(cps, i) \o ToLowerFrom(cps, i + 1)

\* String.prototype.toLowerCase; in a string of ASCII characters every
\* character is mapped by itself
toLowerCase(str) ==
    IF \A k \in 1..Len(str) : str[k] < 128
    THEN [k \in 1..Len(str) |-> IF str[k] >= 65 /\ str[k] <= 90 THEN str[k] + 32 ELSE str[k]]
    ELSE Utf16(ToLowerFrom(CodePoints(str), 1))

\* String.prototype.includes
includes(str, sub) ==
    \E k \in 0..(Len(str) - Len(sub)) : SubSeq(str, k + 1, k + Len(sub)) = sub

EmptyString == <<>>
StrRunning  == << 114, 117, 110, 110, 105, 110, 103 >>   \* "running"
StrError    == << 101, 114, 114, 111, 114 >>   \* "error"
StrFail     == << 102, 97, 105, 108 >>   \* "fail"

\* statuses the remote service reports in the model
Statuses ==
    { EmptyString,
      << 115, 116, 97, 114, 116, 105, 110, 103 >>,   \* "starting"
      << 114, 117, 110, 110, 105, 110, 103 >>,   \* "running"
      << 82, 117, 110, 110, 105, 110, 103 >>,   \* "Running"
      << 102, 97, 105, 108, 101, 100 >>,   \* "failed"
      << 98, 111, 111, 116, 95, 69, 82, 82, 79, 82 >> }   \* "boot_ERROR"

----------------------------------------------------------------------------
(* Values *)

\* a string of n copies of the character c
Repeat(c, n) == [k \in 1..n |-> c]

\* hex strings of 32 bytes, as a server returns for an encryption public key
KeyA == Repeat(97, 64)   \* 64 times "a"
KeyB == << 48, 120 >> \o Repeat(98, 64)   \* "0x" and 64 times "b"

\* what a server can return in a public-key field: nothing, a 32-byte key
\* with and without the 0x prefix, an odd number of digits, a short key,
\* 32 bytes of characters that are not hex digits
PubKeys ==
    { EmptyString, KeyA, KeyB,
      << 97, 98, 99 >>,   \* "abc"
      << 97, 98 >>,       \* "ab"
      Repeat(122, 64) }   \* 64 times "z"

Salt == << 115, 49 >>   \* "s1"

CreatedId == 1

\* the text of the compose file
ComposeContent == "services: {}"

\* entries of the response of GET /api/v1/teepods
Teepod(id, available, status) == [id |-> id, available |-> available, status |-> status]
TeepodLists ==
    { <<>>,
      << Teepod(5, FALSE, "online"), Teepod(6, TRUE, "offline") >>,
      << Teepod(5, TRUE, "offline"), Teepod(6, TRUE, "online"), Teepod(7, TRUE, "online") >> }

NoUrl == "undefined"

\* public_urls[k].app values returned by the network-info operation
UrlLists == { <<>>, <<"https://a", "https://b">> }

\* finalCvm = null
Null == [seq |-> 0, status |-> EmptyString, app_url |-> NoUrl]

\* the snapshot object a successful status query resolves to; seq identifies
\* the query that produced it
Snapshot(body, seq) == [seq |-> seq, status |-> body.status, app_url |-> NoUrl]

\* err.response undefined (connection failure or timeout)
NoResponse == 0

NoError == [kind |-> "none", status |-> NoResponse, req |-> 0]

\* the error an HTTP request rejects with; req identifies the request
HttpError(code, req) == [kind |-> "http", status |-> code, req |-> req]

\* the exception a throwing caller-supplied callback raises (no response field)
CallbackError(name) == [kind |-> name, status |-> NoResponse, req |-> 0]

\* the fields the SDK reads from a response body, all empty
EmptyBody ==
    [status |-> EmptyString, public_urls |-> <<>>,
     encrypted_env_pubkey |-> EmptyString,
     app_env_encrypt_pubkey |-> EmptyString, app_id_salt |-> EmptyString,
     data |-> <<>>, id |-> 0]

\* the bodies of the successful responses of the given operation
ResponseBodies(kind) ==
    CASE kind = "status"  -> { [EmptyBody EXCEPT !.status = st] : st \in Statuses }
      [] kind = "network" -> { [EmptyBody EXCEPT !.public_urls = u] : u \in UrlLists }
      [] kind = "cvm"     -> { [EmptyBody EXCEPT !.status = StrRunning, !.encrypted_env_pubkey = k] :
                                   k \in PubKeys }
      [] kind = "pubkey"  -> { [EmptyBody EXCEPT !.app_env_encrypt_pubkey = k, !.app_id_salt = Salt] :
                                   k \in PubKeys }
      [] kind = "teepods" -> { [EmptyBody EXCEPT !.data = l] : l \in TeepodLists }
      [] OTHER            -> { [EmptyBody EXCEPT !.id = CreatedId] }

\* what one HTTP request of the given operation can settle to
HttpOutcomes(kind) ==
    [ok : {FALSE}, code : ErrStatuses \cup {NoResponse}, body : {EmptyBody}]
    \cup
    [ok : {TRUE}, code : {200}, body : ResponseBodies(kind)]

----------------------------------------------------------------------------
(* ApiClient.executeWithRetry *)

RECURSIVE Pow2(_)
\* Math.pow(2, n)
Pow2(n) == IF n = 0 THEN 1 ELSE 2 * Pow2(n - 1)

\* mutant of RetryDelayMs: a constant delay
RetryDelayMs_Constant(retryCount) == 1000

\* const delay = Math.pow(2, retryCount) * 1000
RetryDelayMs(retryCount) == Pow2(retryCount) * 1000

\* mutant of shouldRetry: every error is retried
shouldRetry_Always(err) == TRUE

\* mutant of shouldRetry: only server errors are retried
shouldRetry_ServerOnly(err) == err.status >= 500

\* const shouldRetry = !err.response || (err.response && err.response.status >= 500)
shouldRetry(err) == err.status = NoResponse \/ err.status >= 500

IdleTransport ==
    [kind |-> "none", phase |-> "idle", retryCount |-> 0, maxRetries |-> DefaultTransportRetries,
     lastError |-> NoError, data |-> EmptyBody]

\* head of `while (retryCount <= this.maxRetries)`: the next attempt delays first
\* when it is a retry; leaving the loop throws lastError
TransportLoop(t) ==
    IF t.retryCount <= t.maxRetries
    THEN [t EXCEPT !.phase = IF t.retryCount > 0 THEN "delay" ELSE "request"]
    ELSE [t EXCEPT !.phase = "thrown"]

\* apiClient.get(path, config): executeWithRetry starts with retryCount = 0
TransportCall(kind, maxRetries) ==
    TransportLoop([IdleTransport EXCEPT !.kind = kind, !.maxRetries = maxRetries])

\* mutant of TransportCatch: lastError keeps the first error of the call
TransportCatch_KeepFirst(t, err) ==
    LET t1 == [t EXCEPT !.lastError = IF @ = NoError THEN err ELSE @] IN
    IF shouldRetry(err) /\ t1.retryCount < t1.maxRetries
    THEN TransportLoop([t1 EXCEPT !.retryCount = @ + 1])
    ELSE [t1 EXCEPT !.phase = "thrown"]

\* the catch block of executeWithRetry
TransportCatch(t, err) ==
    LET t1 == [t EXCEPT !.lastError = err] IN
    IF shouldRetry(err) /\ t1.retryCount < t1.maxRetries
    THEN TransportLoop([t1 EXCEPT !.retryCount = @ + 1])
    ELSE [t1 EXCEPT !.phase = "thrown"]

\* const response = await reqFunction(); return response.data
TransportSettle(t, out, req) ==
    IF out.ok
    THEN [t EXCEPT !.phase = "returned", !.data = out.body]
    ELSE TransportCatch(t, HttpError(out.code, req))

----------------------------------------------------------------------------
(* PhalaCloud.monitorDeploymentStatus: the local variables of one call *)

\* a JavaScript number of milliseconds that is a multiple of one half, as the
\* fraction num / den in lowest terms (den is 1 or 2): 500.5 is Ms(1001, 2)
Ms(num, den) ==
    IF den = 2 /\ num % 2 = 0 THEN [num |-> num \div 2, den |-> 1]
                              ELSE [num |-> num, den |-> den]

\* state of a session at call start, for the given options
NewMonitor(interval, maxRetries, throwing) ==
    [interval |-> interval, maxRetries |-> maxRetries, throwing |-> throwing,
     pc |-> "start",
     retryCount |-> 0, deploymentSuccessful |-> FALSE, lastStatus |-> EmptyString,
     finalCvm |-> Null, consecutiveErrors |-> 0,
     thisLoopHadError |-> FALSE,
     elapsed |-> 0,          \* Date.now() - startTime
     waitMs |-> Ms(0, 1),         \* argument of the setTimeout being awaited
     ret |-> Null,           \* value the call resolved to (pc = "done")
     data |-> EmptyBody,     \* value a direct apiClient call resolved to (pc = "apidone")
     thrown |-> NoError]     \* exception the call rejected with (pc = "threw")

\* what the callbacks, the HTTP layer and the timers of one session have seen
NewObserver ==
    [nQuery |-> 0,           \* getCvmByAppId calls issued
     nHttp |-> 0,            \* HTTP requests issued by the whole call
     nHttpQuery |-> 0,       \* HTTP requests issued by the current apiClient.get
     nStatusChange |-> 0, nSuccess |-> 0, nFailure |-> 0, nTimeout |-> 0, nError |-> 0,
     statusChangeArg |-> EmptyString,  \* argument of onStatusChange in the current iteration
     successArg |-> Null,
     failureArg |-> [status |-> EmptyString, cvm |-> Null],
     timeoutArg |-> Null,
     errorArg |-> NoError,   \* argument of onError in the current iteration
     observed |-> <<>>,      \* outcome of every completed status query, in order
     iterLog |-> <<>>,       \* callbacks and timers of the current iteration, in order
     httpLog |-> <<>>]       \* requests and delays of a direct apiClient call, in order

Event(ev, ms) == [ev |-> ev, ms |-> ms]

\* entries of httpLog: a request with its outcome, a delay with its length
RequestEvent(kind, out) ==
    [ev |-> "request", kind |-> kind, ok |-> out.ok, val |-> out.code, body |-> out.body]
DelayEvent(kind, ms) ==
    [ev |-> "delay", kind |-> kind, ok |-> TRUE, val |-> ms, body |-> EmptyBody]

\* httpLog is kept for the calls a caller makes on the ApiClient itself
Trace(f, e) == IF f.m.pc = "apiwait" THEN [f.o EXCEPT !.httpLog = Append(@, e)] ELSE f.o

Log(o, ev, ms) == [o EXCEPT !.iterLog = Append(@, Event(ev, ms))]

\* mutant of IsRunning: the comparison without toLowerCase
IsRunning_CaseSensitive(status) == status = StrRunning

\* cvm.status.toLowerCase() === 'running'
IsRunning(status) == toLowerCase(status) = StrRunning

\* mutant of IsFailure: the substring tests without toLowerCase
IsFailure_CaseSensitive(status) == includes(status, StrError) \/ includes(status, StrFail)

\* cvm.status.toLowerCase().includes('error') || cvm.status.toLowerCase().includes('fail')
IsFailure(status) ==
    includes(toLowerCase(status), StrError) \/ includes(toLowerCase(status), StrFail)

\* mutant of LoopCondition: off by one
LoopCondition_OffByOne(m) == m.retryCount <= m.maxRetries /\ ~m.deploymentSuccessful

\* while (retryCount < maxRetries && !deploymentSuccessful)
LoopCondition(m) == m.retryCount < m.maxRetries /\ ~m.deploymentSuccessful

\* mutant of TimeoutCondition: strict comparison
TimeoutCondition_Strict(m) == m.retryCount > m.maxRetries /\ ~m.deploymentSuccessful

\* mutant of TimeoutCondition: the attempt count is not consulted
TimeoutCondition_NotSuccessful(m) == ~m.deploymentSuccessful

\* if (retryCount < maxRetries && !deploymentSuccessful), before the wait
WaitCondition(m) == m.retryCount < m.maxRetries /\ ~m.deploymentSuccessful

\* if (retryCount >= maxRetries && !deploymentSuccessful)
TimeoutCondition(m) == m.retryCount >= m.maxRetries /\ ~m.deploymentSuccessful

\* mutant of StatusChanged: the first status seen is taken as a baseline
StatusChanged_SkipFirst(lastStatus, status) == lastStatus # EmptyString /\ lastStatus # status

\* mutant of StatusChanged: the callback fires on every poll
StatusChanged_Always(lastStatus, status) == TRUE

\* if (lastStatus !== cvm.status)
StatusChanged(lastStatus, status) == lastStatus # status

\* if (consecutiveErrors >= maxConsecutiveErrors)
TooManyErrors(consecutiveErrors) == consecutiveErrors >= maxConsecutiveErrors

\* await new Promise(resolve => setTimeout(resolve, interval * 2))
ExtendedPauseMs(interval) == interval * 2

\* mutant of ErrorsAfterSuccess: a successful query leaves the count alone
ErrorsAfterSuccess_Kept(consecutiveErrors) == consecutiveErrors

\* consecutiveErrors = 0 after a query resolved
ErrorsAfterSuccess(consecutiveErrors) == 0

\* mutant of ErrorsAfterPause: the count is reset
ErrorsAfterPause_Reset(consecutiveErrors) == 0

\* mutant of ErrorsAfterPause: the count is left at the threshold
ErrorsAfterPause_Kept(consecutiveErrors) == consecutiveErrors

\* consecutiveErrors = Math.max(0, consecutiveErrors - 1)
ErrorsAfterPause(consecutiveErrors) ==
    IF consecutiveErrors - 1 > 0 THEN consecutiveErrors - 1 ELSE 0

\* const targetWaitTime = interval * (thisLoopHadError ? 0.5 : 1.0)
TargetWaitTime(interval, thisLoopHadError) ==
    IF thisLoopHadError THEN Ms(interval, 2) ELSE Ms(interval, 1)

\* mutant of RemainingWaitTime: the difference is not clamped at 0
RemainingWaitTime_Unclamped(targetWaitTime, elapsedTime) ==
    Ms(targetWaitTime.num - elapsedTime * targetWaitTime.den, targetWaitTime.den)

\* const remainingWaitTime = Math.max(0, targetWaitTime - elapsedTime)
RemainingWaitTime(targetWaitTime, elapsedTime) ==
    IF targetWaitTime.num - elapsedTime * targetWaitTime.den > 0
    THEN Ms(targetWaitTime.num - elapsedTime * targetWaitTime.den, targetWaitTime.den)
    ELSE Ms(0, 1)

----------------------------------------------------------------------------
(* The synchronous stretches of monitorDeploymentStatus, as functions on   *)
(* a frame f = [m |-> monitor[i], t |-> transport[i], o |-> observer[i]]   *)

\* the code after the loop: timeout handling and return finalCvm
AfterLoop(f) ==
    IF TimeoutCondition(f.m)
    THEN LET o1 == Log([f.o EXCEPT !.nTimeout = @ + 1, !.timeoutArg = f.m.finalCvm],
                       "onTimeout", 0) IN
         IF "onTimeout" \in f.m.throwing
         THEN [f EXCEPT !.o = o1, !.m.pc = "threw", !.m.thrown = CallbackError("onTimeout")]
         ELSE [f EXCEPT !.o = o1, !.m.pc = "done", !.m.ret = f.m.finalCvm]
    ELSE [f EXCEPT !.m.pc = "done", !.m.ret = f.m.finalCvm]

\* mutant of BeginIteration: the status query is sent as one plain request,
\* without the retries of the transport
BeginIteration_Direct(f) ==
    [f EXCEPT !.m.elapsed = 0, !.m.thisLoopHadError = FALSE, !.m.pc = "query",
              !.t = TransportCall("status", 0),
              !.o.nQuery = @ + 1, !.o.nHttpQuery = 0, !.o.iterLog = <<>>,
              !.o.statusChangeArg = EmptyString, !.o.errorArg = NoError]

\* top of the loop body: startTime = Date.now(), thisLoopHadError = false,
\* then await this.getCvmByAppId(appId, queryTimeout)
BeginIteration(f) ==
    [f EXCEPT !.m.elapsed = 0, !.m.thisLoopHadError = FALSE, !.m.pc = "query",
              !.t = TransportCall("status", DefaultTransportRetries),
              !.o.nQuery = @ + 1, !.o.nHttpQuery = 0, !.o.iterLog = <<>>,
              !.o.statusChangeArg = EmptyString, !.o.errorArg = NoError]

LoopHead(f) == IF LoopCondition(f.m) THEN BeginIteration(f) ELSE AfterLoop(f)

\* mutant of EndIteration: an iteration whose query failed is not counted
EndIteration_ErrorsUncounted(f) ==
    LET m1 == [f.m EXCEPT !.retryCount = IF f.m.thisLoopHadError THEN @ ELSE @ + 1]
        remainingWaitTime ==
            RemainingWaitTime(TargetWaitTime(m1.interval, m1.thisLoopHadError), m1.elapsed)
    IN  IF WaitCondition(m1)
        THEN [f EXCEPT !.m = [m1 EXCEPT !.pc = "wait", !.waitMs = remainingWaitTime],
                       !.o = Log(f.o, "wait", remainingWaitTime)]
        ELSE LoopHead([f EXCEPT !.m = m1])

\* retryCount++ and the timing correction at the bottom of the loop body
EndIteration(f) ==
    LET m1 == [f.m EXCEPT !.retryCount = @ + 1]
        remainingWaitTime ==
            RemainingWaitTime(TargetWaitTime(m1.interval, m1.thisLoopHadError), m1.elapsed)
    IN  IF WaitCondition(m1)
        THEN [f EXCEPT !.m = [m1 EXCEPT !.pc = "wait", !.waitMs = remainingWaitTime],
                       !.o = Log(f.o, "wait", remainingWaitTime)]
        ELSE LoopHead([f EXCEPT !.m = m1])

\* mutant of CallOnError: the error is logged but the callback is not invoked
CallOnError_Skipped(o, err) == o

\* if (onError) { onError(error); }
CallOnError(o, err) == Log([o EXCEPT !.nError = @ + 1, !.errorArg = err], "onError", 0)

\* mutant of Catch: the error is not caught and rejects the call
Catch_Rethrow(f, err) == [f EXCEPT !.m.pc = "threw", !.m.thrown = err]

\* mutant of Catch: the catch block forgets the last status and snapshot
Catch_Forget(f, err) ==
    LET m1 == [f.m EXCEPT !.thisLoopHadError = TRUE, !.consecutiveErrors = @ + 1,
                          !.lastStatus = EmptyString, !.finalCvm = Null]
        o1 == CallOnError(f.o, err)
        f1 == [f EXCEPT !.m = m1, !.o = o1]
    IN  IF TooManyErrors(m1.consecutiveErrors)
        THEN [f1 EXCEPT !.m.pc = "pause", !.m.waitMs = Ms(ExtendedPauseMs(m1.interval), 1),
                        !.o = Log(o1, "pause", Ms(ExtendedPauseMs(m1.interval), 1))]
        ELSE EndIteration(f1)

\* the catch block of the loop body, up to its await of the extended pause
Catch(f, err) ==
    LET m1 == [f.m EXCEPT !.thisLoopHadError = TRUE, !.consecutiveErrors = @ + 1]
        o1 == CallOnError(f.o, err)
        f1 == [f EXCEPT !.m = m1, !.o = o1]
    IN  IF "onError" \in m1.throwing
        THEN [f1 EXCEPT !.m.pc = "threw", !.m.thrown = CallbackError("onError")]
        ELSE IF TooManyErrors(m1.consecutiveErrors)
        THEN [f1 EXCEPT !.m.pc = "pause", !.m.waitMs = Ms(ExtendedPauseMs(m1.interval), 1),
                        !.o = Log(o1, "pause", Ms(ExtendedPauseMs(m1.interval), 1))]
        ELSE EndIteration(f1)

\* the catch block after the extended pause has elapsed
AfterPause(f) ==
    EndIteration([f EXCEPT !.m.elapsed = @ + ExtendedPauseMs(f.m.interval),
                           !.m.waitMs = Ms(0, 1),
                           !.m.consecutiveErrors = ErrorsAfterPause(@)])

\* mutant of TryBody: onStatusChange and onFailure are called under a guard
\* of their own, which swallows what they throw
TryBody_CallbacksGuarded(f, cvm) ==
    LET changed == StatusChanged(f.m.lastStatus, cvm.status)
        m1 == [f.m EXCEPT !.finalCvm = cvm, !.consecutiveErrors = ErrorsAfterSuccess(@),
                          !.lastStatus = IF changed THEN cvm.status ELSE @]
        o1 == IF changed
              THEN Log([f.o EXCEPT !.nStatusChange = @ + 1, !.statusChangeArg = cvm.status],
                       "onStatusChange", 0)
              ELSE f.o
        f1 == [f EXCEPT !.m = m1, !.o = o1]
    IN  IF IsRunning(cvm.status)
        THEN [f1 EXCEPT !.m.deploymentSuccessful = TRUE, !.m.pc = "network",
                        !.t = TransportCall("network", DefaultTransportRetries),
                        !.o.nHttpQuery = 0]
        ELSE IF IsFailure(cvm.status)
        THEN AfterLoop([f1 EXCEPT !.o = Log([o1 EXCEPT !.nFailure = @ + 1,
                                                 !.failureArg = [status |-> cvm.status, cvm |-> cvm]],
                                            "onFailure", 0)])
        ELSE EndIteration(f1)

\* mutant of TryBody: a terminal status is reported by onSuccess or onFailure
\* alone, onStatusChange is kept for the statuses in progress
TryBody_TerminalSilent(f, cvm) ==
    LET changed == StatusChanged(f.m.lastStatus, cvm.status)
        notified == changed /\ ~IsRunning(cvm.status) /\ ~IsFailure(cvm.status)
        m1 == [f.m EXCEPT !.finalCvm = cvm, !.consecutiveErrors = ErrorsAfterSuccess(@),
                          !.lastStatus = IF changed THEN cvm.status ELSE @]
        o1 == IF notified
              THEN Log([f.o EXCEPT !.nStatusChange = @ + 1, !.statusChangeArg = cvm.status],
                       "onStatusChange", 0)
              ELSE f.o
        f1 == [f EXCEPT !.m = m1, !.o = o1]
    IN  IF IsRunning(cvm.status)
        THEN [f1 EXCEPT !.m.deploymentSuccessful = TRUE, !.m.pc = "network",
                        !.t = TransportCall("network", DefaultTransportRetries),
                        !.o.nHttpQuery = 0]
        ELSE IF IsFailure(cvm.status)
        THEN AfterLoop([f1 EXCEPT !.o = Log([o1 EXCEPT !.nFailure = @ + 1,
                                                 !.failureArg = [status |-> cvm.status, cvm |-> cvm]],
                                            "onFailure", 0)])
        ELSE EndIteration(f1)

\* the try block from the resolution of getCvmByAppId to its next await, break or end
TryBody(f, cvm) ==
    LET changed == StatusChanged(f.m.lastStatus, cvm.status)
        m1 == [f.m EXCEPT !.finalCvm = cvm, !.consecutiveErrors = ErrorsAfterSuccess(@),
                          !.lastStatus = IF changed THEN cvm.status ELSE @]
        o1 == IF changed
              THEN Log([f.o EXCEPT !.nStatusChange = @ + 1, !.statusChangeArg = cvm.status],
                       "onStatusChange", 0)
              ELSE f.o
        f1 == [f EXCEPT !.m = m1, !.o = o1]
    IN  IF changed /\ "onStatusChange" \in m1.throwing
        THEN Catch(f1, CallbackError("onStatusChange"))
        ELSE IF IsRunning(cvm.status)
        THEN [f1 EXCEPT !.m.deploymentSuccessful = TRUE, !.m.pc = "network",
                        !.t = TransportCall("network", DefaultTransportRetries),
                        !.o.nHttpQuery = 0]
        ELSE IF IsFailure(cvm.status)
        THEN LET f2 == [f1 EXCEPT !.o = Log([o1 EXCEPT !.nFailure = @ + 1,
                                                 !.failureArg = [status |-> cvm.status, cvm |-> cvm]],
                                            "onFailure", 0)]
             IN  IF "onFailure" \in m1.throwing
                 THEN Catch(f2, CallbackError("onFailure"))
                 ELSE AfterLoop(f2)
        ELSE EndIteration(f1)

\* mutant of AfterNetwork: a rejected getCvmNetwork is not caught by an inner
\* try and lands in the catch block of the loop body
AfterNetwork_Uncaught(f) ==
    IF f.t.phase = "thrown"
    THEN Catch(f, f.t.lastError)
    ELSE LET networkInfo == f.t.data
             m1 == [f.m EXCEPT !.finalCvm.app_url =
                        IF Len(networkInfo.public_urls) > 0 THEN networkInfo.public_urls[1] ELSE @]
             o1 == Log([f.o EXCEPT !.nSuccess = @ + 1, !.successArg = m1.finalCvm], "onSuccess", 0)
         IN  AfterLoop([f EXCEPT !.m = m1, !.o = o1])

\* the try block from the settling of getCvmNetwork: enrichment (a rejection is
\* caught and logged with logger.error), onSuccess, break
AfterNetwork(f) ==
    LET networkInfo == f.t.data
        enriched == f.t.phase = "returned" /\ Len(networkInfo.public_urls) > 0
        m1 == [f.m EXCEPT !.finalCvm.app_url = IF enriched THEN networkInfo.public_urls[1] ELSE @]
        o0 == IF f.t.phase = "thrown" THEN Log(f.o, "networkError", 0) ELSE f.o
        o1 == Log([o0 EXCEPT !.nSuccess = @ + 1, !.successArg = m1.finalCvm], "onSuccess", 0)
        f1 == [f EXCEPT !.m = m1, !.o = o1]
    IN  IF "onSuccess" \in m1.throwing
        THEN Catch(f1, CallbackError("onSuccess"))
        ELSE AfterLoop(f1)

----------------------------------------------------------------------------
(* Actions: one per resumption of the async code *)

Frame(i) == [m |-> monitor[i], t |-> transport[i], o |-> observer[i], d |-> deploy[i]]

\* mutant of Commit: consecutiveErrors is one counter of the instance, which
\* every session reads and writes
Commit_Shared(i, f) ==
    /\ monitor' = [j \in DOMAIN monitor |->
                      IF j = i THEN f.m
                      ELSE [monitor[j] EXCEPT !.consecutiveErrors = f.m.consecutiveErrors]]
    /\ transport' = [transport EXCEPT ![i] = f.t]
    /\ observer' = [observer EXCEPT ![i] = f.o]
    /\ deploy' = [deploy EXCEPT ![i] = f.d]
    /\ UNCHANGED codec

Commit(i, f) ==
    /\ monitor' = [monitor EXCEPT ![i] = f.m]
    /\ transport' = [transport EXCEPT ![i] = f.t]
    /\ observer' = [observer EXCEPT ![i] = f.o]
    /\ deploy' = [deploy EXCEPT ![i] = f.d]
    /\ UNCHANGED codec

\* query outcome recorded in observer[i].observed
Observed(ok, status) == [ok |-> ok, status |-> status]

\* monitorDeploymentStatus(appId, options) is called and runs to its first await
Call(i) ==
    /\ monitor[i].pc = "start"
    /\ Commit(i, LoopHead(Frame(i)))

\* executeWithRetry: await new Promise(resolve => setTimeout(resolve, delay)) of a retry
RetryDelay(i) ==
    /\ transport[i].phase = "delay"
    /\ LET f == Frame(i)
           delay == RetryDelayMs(f.t.retryCount)
       IN  Commit(i, [f EXCEPT !.t.phase = "request",
                               !.m.elapsed = @ + delay,
                               !.o = Log(Trace(f, DelayEvent(f.t.kind, delay)), "backoff", delay)])

\* executeWithRetry: one HTTP request is issued and settles; the code runs
\* on to the next await of executeWithRetry, its return or its throw
HttpRequestOf(i, outcomes, durations) ==
    /\ transport[i].phase = "request"
    /\ \E out \in outcomes, d \in durations :
          LET f == Frame(i)
              req == f.o.nHttpQuery + 1
          IN  Commit(i, [f EXCEPT !.t = TransportSettle(f.t, out, req),
                                  !.m.elapsed = @ + d,
                                  !.o = [Trace(f, RequestEvent(f.t.kind, out)) EXCEPT
                                            !.nHttp = @ + 1, !.nHttpQuery = req]])

HttpRequest(i) == HttpRequestOf(i, HttpOutcomes(transport[i].kind), ReqDurations)

\* await this.getCvmByAppId(...) resolves with a snapshot
QueryReturned(i) ==
    /\ monitor[i].pc = "query"
    /\ transport[i].phase = "returned"
    /\ LET f == Frame(i)
           cvm == Snapshot(f.t.data, f.o.nQuery)
       IN  Commit(i, TryBody([f EXCEPT !.t = IdleTransport,
                                       !.o.observed = Append(@, Observed(TRUE, cvm.status))],
                             cvm))

\* await this.getCvmByAppId(...) rejects: getCvmByAppId logs and rethrows the
\* error executeWithRetry threw
QueryThrew(i) ==
    /\ monitor[i].pc = "query"
    /\ transport[i].phase = "thrown"
    /\ LET f == Frame(i)
       IN  Commit(i, Catch([f EXCEPT !.t = IdleTransport,
                                     !.o.observed = Append(@, Observed(FALSE, EmptyString))],
                           f.t.lastError))

\* await this.getCvmNetwork(appId) resolves or rejects
NetworkSettled(i) ==
    /\ monitor[i].pc = "network"
    /\ transport[i].phase \in {"returned", "thrown"}
    /\ LET f == AfterNetwork(Frame(i))
       IN  Commit(i, [f EXCEPT !.t = IdleTransport])

\* the extended pause setTimeout(resolve, interval * 2) fires
PauseDone(i) ==
    /\ monitor[i].pc = "pause"
    /\ Commit(i, AfterPause(Frame(i)))

\* the setTimeout(resolve, remainingWaitTime) at the bottom of the loop fires
WaitDone(i) ==
    /\ monitor[i].pc = "wait"
    /\ Commit(i, LoopHead([Frame(i) EXCEPT !.m.waitMs = Ms(0, 1)]))

----------------------------------------------------------------------------
(* PhalaCloud.deploy and PhalaCloud.upgrade *)

\* no deploy or upgrade call in the session
IdleDeploy == [pc |-> "idle"]

\* undefined, for an optional number (the numbers of the model are >= 0)
Undefined == -1

\* JavaScript truthiness of an optional number, of an option string ("" also
\* stands for an option left undefined) and of a string of characters
TruthyNum(n) == n # Undefined /\ n # 0
TruthyStr(str) == str # ""
TruthyChars(str) == str # EmptyString

\* a || b for optional numbers and for strings
OrNum(a, b) == IF TruthyNum(a) THEN a ELSE b
OrStr(a, b) == IF TruthyStr(a) THEN a ELSE b

\* an Error the SDK itself creates; it has no response field
SdkError(name) == [kind |-> name, status |-> NoResponse, req |-> 0]

RECURSIVE Split(_, _)
\* str.split(sep) for a one-character separator
Split(str, sep) ==
    IF \A k \in 1..Len(str) : str[k] # sep
    THEN << str >>
    ELSE LET k == CHOOSE j \in 1..Len(str) :
                      str[j] = sep /\ \A l \in 1..(j - 1) : str[l] # sep
         IN  << SubSeq(str, 1, k - 1) >> \o Split(SubSeq(str, k + 1, Len(str)), sep)

\* the property name whose assignment on a plain object reaches the setter of
\* Object.prototype and, for a string value, changes nothing
ProtoKey == << 95, 95, 112, 114, 111, 116, 111, 95, 95 >>   \* "__proto__"

\* the decimal digits "0" to "9" are the code units 48 to 57
IsDecimalDigit(c) == c >= 48 /\ c <= 57

DigitValue(c) == c - 48

\* a < b for two strings of decimal digits without leading zeros
NumericLess(a, b) ==
    \/ Len(a) < Len(b)
    \/ /\ Len(a) = Len(b)
       /\ \E k \in 1..Len(a) :
              /\ DigitValue(a[k]) < DigitValue(b[k])
              /\ \A l \in 1..(k - 1) : a[l] = b[l]

\* the largest array index, 2^32 - 2
MaxArrayIndex == << 52, 50, 57, 52, 57, 54, 55, 50, 57, 52 >>   \* "4294967294"

\* a property name that is an array index: the canonical decimal form of an
\* integer from 0 to 2^32 - 2 (so "1" and "10", but not "01" or "")
IsArrayIndex(key) ==
    /\ key # <<>>
    /\ \A k \in 1..Len(key) : IsDecimalDigit(key[k])
    /\ key[1] = 48 => Len(key) = 1
    /\ key = MaxArrayIndex \/ NumericLess(key, MaxArrayIndex)

\* envVars[key] = value on the plain object {}; envVars lists the own
\* properties in the order Object.entries returns them: array indices in
\* ascending numeric order, then the other names in the order of their creation
SetEntry(envVars, key, value) ==
    IF key = ProtoKey THEN envVars
    ELSE IF \E k \in 1..Len(envVars) : envVars[k].key = key
    THEN [k \in 1..Len(envVars) |->
             IF envVars[k].key = key THEN [key |-> key, value |-> value] ELSE envVars[k]]
    ELSE IF IsArrayIndex(key)
    THEN LET n == Cardinality({ k \in 1..Len(envVars) :
                                  /\ IsArrayIndex(envVars[k].key)
                                  /\ NumericLess(envVars[k].key, key) })
         IN  SubSeq(envVars, 1, n) \o << [key |-> key, value |-> value] >>
                 \o SubSeq(envVars, n + 1, Len(envVars))
    ELSE Append(envVars, [key |-> key, value |-> value])

RECURSIVE ParseLines(_, _)
\* the loop over the entries of the env list, and over the lines of the file:
\* `if (env.includes("=")) { const [key, value] = env.split("="); if (key && value) ... }`
ParseLines(envVars, lines) ==
    IF lines = <<>> THEN envVars
    ELSE LET env == Head(lines)
             parts == Split(env, 61)
             next == IF Len(parts) >= 2 /\ parts[1] # <<>> /\ parts[2] # <<>>
                     THEN SetEntry(envVars, parts[1], parts[2])
                     ELSE envVars
         IN  ParseLines(next, Tail(lines))

\* an envFile option: its path, whether fs.existsSync(path), the file's text
EnvFile(path, exists, content) == [path |-> path, exists |-> exists, content |-> content]

\* PhalaCloud.parseEnv(envs, envFile)
parseEnv(envs, envFile) ==
    LET fromList == ParseLines(<<>>, envs)
    IN  IF TruthyStr(envFile.path) /\ envFile.exists
        THEN ParseLines(fromList, Split(envFile.content, 10))
        ELSE fromList

\* the digits b.toString(16) writes: "0" to "9" and "a" to "f"
HexDigits ==
    << 48, 49, 50, 51, 52, 53, 54, 55, 56, 57, 97, 98, 99, 100, 101, 102 >>

\* a digit parseInt(s, 16) reads: "0" to "9", "A" to "F" or "a" to "f"
IsHexDigit(c) ==
    \/ c >= 48 /\ c <= 57
    \/ c >= 65 /\ c <= 70
    \/ c >= 97 /\ c <= 102

HexValue(c) == IF c <= 57 THEN c - 48 ELSE IF c <= 70 THEN c - 55 ELSE c - 87

\* the white space and line terminators parseInt skips: tab, line feed,
\* vertical tab, form feed, carriage return, space, no-break space, U+1680,
\* U+2000 to U+200A, U+2028, U+2029, U+202F, U+205F, U+3000 and U+FEFF
IsWhiteSpace(c) ==
    \/ c >= 9 /\ c <= 13
    \/ c >= 8192 /\ c <= 8202
    \/ c \in { 32, 160, 5760, 8232, 8233, 8239, 8287, 12288, 65279 }

\* array[i / 2] = parseInt(hex.substring(i, i + 2), 16): parseInt skips leading
\* white space, takes a sign "+" (43) or "-" (45) and reads the hex digits
\* that follow (of "0x" nothing is left to read); the Uint8Array stores NaN as 0 and a negative
\* number modulo 256
ParseByte(c1, c2) ==
    IF IsHexDigit(c1)
    THEN IF IsHexDigit(c2) THEN 16 * HexValue(c1) + HexValue(c2) ELSE HexValue(c1)
    ELSE IF IsWhiteSpace(c1) \/ c1 = 43
    THEN IF IsHexDigit(c2) THEN HexValue(c2) ELSE 0
    ELSE IF c1 = 45
    THEN IF IsHexDigit(c2) THEN (256 - HexValue(c2)) % 256 ELSE 0
    ELSE 0

\* hex.startsWith('0x') ? hex.substring(2) : hex
StripPrefix(hex) ==
    IF Len(hex) >= 2 /\ hex[1] = 48 /\ hex[2] = 120   \* "0x"
    THEN SubSeq(hex, 3, Len(hex)) ELSE hex

\* hexToUint8Array throws for an odd number of digits
HexThrows(hex) == Len(StripPrefix(hex)) % 2 # 0

\* hexToUint8Array(hex), for a hex it does not throw for
hexToUint8Array(hex) ==
    LET h == StripPrefix(hex)
    IN  [k \in 1..(Len(h) \div 2) |-> ParseByte(h[2 * k - 1], h[2 * k])]

\* length of an X25519 public key in bytes
KeyBytes == 32

\* the u-coordinates of small order on Curve25519, as 32 little-endian
\* bytes: 0, 1, the two of order 8, p - 1, p and p + 1 (p = 2^255 - 19); with
\* any private key they give the all-zero shared secret
SmallOrderKeys ==
    {
      << 0, 0, 0, 0, 0, 0, 0, 0, 0, 0, 0, 0, 0, 0, 0, 0,
         0, 0, 0, 0, 0, 0, 0, 0, 0, 0, 0, 0, 0, 0, 0, 0 >>,
      << 1, 0, 0, 0, 0, 0, 0, 0, 0, 0, 0, 0, 0, 0, 0, 0,
         0, 0, 0, 0, 0, 0, 0, 0, 0, 0, 0, 0, 0, 0, 0, 0 >>,
      << 224, 235, 122, 124, 59, 65, 184, 174, 22, 86, 227, 250, 241, 159, 196, 106,
         218, 9, 141, 235, 156, 50, 177, 253, 134, 98, 5, 22, 95, 73, 184, 0 >>,
      << 95, 156, 149, 188, 163, 80, 140, 36, 177, 208, 177, 85, 156, 131, 239, 91,
         4, 68, 92, 196, 88, 28, 142, 134, 216, 34, 78, 221, 208, 159, 17, 87 >>,
      << 236, 255, 255, 255, 255, 255, 255, 255, 255, 255, 255, 255, 255, 255, 255, 255,
         255, 255, 255, 255, 255, 255, 255, 255, 255, 255, 255, 255, 255, 255, 255, 127 >>,
      << 237, 255, 255, 255, 255, 255, 255, 255, 255, 255, 255, 255, 255, 255, 255, 255,
         255, 255, 255, 255, 255, 255, 255, 255, 255, 255, 255, 255, 255, 255, 255, 127 >>,
      << 238, 255, 255, 255, 255, 255, 255, 255, 255, 255, 255, 255, 255, 255, 255, 255,
         255, 255, 255, 255, 255, 255, 255, 255, 255, 255, 255, 255, 255, 255, 255, 127 >> }

\* the u-coordinate the function decodes: the top bit of the last byte is ignored
MaskedKey(remotePubkey) ==
    [k \in 1..Len(remotePubkey) |->
        IF k = KeyBytes THEN remotePubkey[k] % 128 ELSE remotePubkey[k]]

\* x25519.getSharedSecret(privateKey, remotePubkey) of @noble/curves rejects a
\* public key that is not 32 bytes long or that gives an all-zero secret
SharedSecretThrows(remotePubkey) ==
    \/ Len(remotePubkey) # KeyBytes
    \/ MaskedKey(remotePubkey) \in SmallOrderKeys

\* the empty string assigned to encrypted_env when nothing is encrypted
NoCipher == [plain |-> <<>>, to |-> <<>>, eph |-> 0]

\* the hex string encryptSecrets returns: ephemeral public key, nonce and the
\* AES-GCM ciphertext of JSON.stringify({ env: envs }), symbolically; n
\* identifies the ephemeral key pair and the nonce drawn by this call
Cipher(envs, remotePubkey, n) == [plain |-> envs, to |-> remotePubkey, eph |-> n]

\* whether encryptSecrets(envs, pubkey) rejects
EncryptThrows(pubkey) ==
    HexThrows(pubkey) \/ SharedSecretThrows(hexToUint8Array(pubkey))

----------------------------------------------------------------------------
(* encryptSecrets, byte by byte (utils/crypto.ts) *)

\* no direct call of encryptSecrets
IdleCodec == [pc |-> "idle"]

\* the bytes of one code point in UTF-8; a surrogate that is not part of a
\* pair is encoded as U+FFFD
Utf8(cp) ==
    IF cp < 128 THEN << cp >>
    ELSE IF cp < 2048 THEN << 192 + (cp \div 64), 128 + (cp % 64) >>
    ELSE IF IsHighSurrogate(cp) \/ IsLowSurrogate(cp) THEN << 239, 191, 189 >>
    ELSE IF cp < 65536
    THEN << 224 + (cp \div 4096), 128 + ((cp \div 64) % 64), 128 + (cp % 64) >>
    ELSE << 240 + (cp \div 262144), 128 + ((cp \div 4096) % 64),
            128 + ((cp \div 64) % 64), 128 + (cp % 64) >>

\* the code points in UTF-8, joined half by half
RECURSIVE Utf8All(_)
Utf8All(cps) ==
    IF cps = <<>> THEN <<>>
    ELSE IF Len(cps) = 1 THEN Utf8(cps[1])
    ELSE LET half == Len(cps) \div 2 IN
         Utf8All(SubSeq(cps, 1, half)) \o Utf8All(SubSeq(cps, half + 1, Len(cps)))

\* new TextEncoder().encode(str)
TextEncode(str) == Utf8All(CodePoints(str))

\* the control characters JSON.stringify writes with a letter: backspace,
\* tab, line feed, form feed and carriage return, and the letters b, t, n, f, r
ShortEscapeCodes == << 8, 9, 10, 12, 13 >>
ShortEscapeLetters == << 98, 116, 110, 102, 114 >>

\* the four hexadecimal digits of a code unit
Hex4(n) ==
    << HexDigits[(n \div 4096) + 1], HexDigits[((n \div 256) % 16) + 1],
       HexDigits[((n \div 16) % 16) + 1], HexDigits[(n % 16) + 1] >>

\* the code units JSON.stringify writes for one code point of a string: the
\* quote (34) and the backslash (92) after a backslash, a control character
\* and a surrogate that is not part of a pair as an escape, any other as it is
JsonEscape(cp) ==
    IF cp = 34 \/ cp = 92 THEN << 92, cp >>
    ELSE IF \E k \in 1..Len(ShortEscapeCodes) : ShortEscapeCodes[k] = cp
    THEN << 92, ShortEscapeLetters[CHOOSE k \in 1..Len(ShortEscapeCodes) :
                                         ShortEscapeCodes[k] = cp] >>
    ELSE IF cp < 32 \/ IsHighSurrogate(cp) \/ IsLowSurrogate(cp)
    THEN << 92, 117 >> \o Hex4(cp)
    ELSE CodeUnits(cp)

RECURSIVE JsonChars(_)
JsonChars(cps) ==
    IF cps = <<>> THEN <<>> ELSE JsonEscape(Head(cps)) \o JsonChars(Tail(cps))

\* JSON.stringify of a string
JsonString(str) == << 34 >> \o JsonChars(CodePoints(str)) \o << 34 >>

\* JSON.stringify of { key, value }
JsonEntry(e) ==
    << 123, 34, 107, 101, 121, 34, 58 >> \o JsonString(e.key)               \* {"key":
       \o << 44, 34, 118, 97, 108, 117, 101, 34, 58 >> \o JsonString(e.value)   \* ,"value":
       \o << 125 >>

RECURSIVE JsonEntries(_)
JsonEntries(envs) ==
    IF envs = <<>> THEN <<>>
    ELSE IF Len(envs) = 1 THEN JsonEntry(envs[1])
    ELSE JsonEntry(envs[1]) \o << 44 >> \o JsonEntries(Tail(envs))

\* JSON.stringify({ env: envs })
Stringify(envs) ==
    << 123, 34, 101, 110, 118, 34, 58, 91 >> \o JsonEntries(envs) \o << 93, 125 >>   \* {"env":[ ]}

\* b.toString(16)
ToString16(b) ==
    IF b < 16 THEN << HexDigits[b + 1] >>
    ELSE << HexDigits[(b \div 16) + 1], HexDigits[(b % 16) + 1] >>

\* mutant of PadStart2: bytes below 16 are written with one digit
PadStart2_None(str) == str

\* str.padStart(2, '0')
PadStart2(str) == IF Len(str) < 2 THEN << 48 >> \o str ELSE str

\* Array.from(bytes).map(b => b.toString(16).padStart(2, '0')).join(''): the
\* digits of the bytes in order, joined half by half
RECURSIVE uint8ArrayToHex(_)
uint8ArrayToHex(bytes) ==
    IF bytes = <<>> THEN <<>>
    ELSE IF Len(bytes) = 1 THEN PadStart2(ToString16(bytes[1]))
    ELSE LET half == Len(bytes) \div 2 IN
         uint8ArrayToHex(SubSeq(bytes, 1, half))
            \o uint8ArrayToHex(SubSeq(bytes, half + 1, Len(bytes)))

\* the tuple a function on 1..n is, its elements computed once
Eager(f) == f \o <<>>

----------------------------------------------------------------------------
(* X25519 (RFC 7748), the function of @noble/curves behind getPublicKey and
   getSharedSecret.  An element of the field of 2^255 - 19 elements is held
   as 20 limbs of 13 bits, least significant first, so that every product
   of the arithmetic stays below 2^31; a limb may exceed its 13 bits by a
   little between two operations. *)

FeLimbs == 20
FeRadix == Pow2(13)

\* 2^260 modulo 2^255 - 19
FeWrap == 32 * 19

\* one pass of carries, the carry out of the last limb wrapping to the first
FeCarry(c) ==
    Eager([i \in 1..FeLimbs |->
        (c[i] % FeRadix) + (IF i = 1 THEN FeWrap * (c[FeLimbs] \div FeRadix)
                                     ELSE c[i - 1] \div FeRadix)])

FeAdd(a, b) == FeCarry(FeCarry(Eager([i \in 1..FeLimbs |-> a[i] + b[i]])))

\* a multiple of 2^255 - 19 with limbs that exceed those of any element
FePad == Eager([i \in 1..FeLimbs |-> IF i = 1 THEN 2 * (FeRadix - 1) - 2 * FeWrap + 2
                                              ELSE 2 * (FeRadix - 1)])

FeSub(a, b) == FeCarry(FeCarry(Eager([i \in 1..FeLimbs |-> a[i] - b[i] + FePad[i]])))

\* a times the small number n
FeScale(a, n) == FeCarry(FeCarry(FeCarry(Eager([i \in 1..FeLimbs |-> a[i] * n]))))

\* one pass of carries over the 40 limbs of a product
FeCarryWide(c) ==
    Eager([i \in 1..(2 * FeLimbs) |->
        (IF i < 2 * FeLimbs THEN c[i] % FeRadix ELSE c[i])
        + (IF i = 1 THEN 0 ELSE c[i - 1] \div FeRadix)])

\* b between two runs of zeros, so that a product may index it anywhere
FeSpread(b) == [j \in 1..(FeLimbs - 1) |-> 0] \o b \o [j \in 1..FeLimbs |-> 0]

\* the 40 limbs of the product of a and the limbs bb spreads, before any carry
FeProduct(a, bb) ==
    Eager([n \in 1..(2 * FeLimbs) |->
        LET k == n + FeLimbs - 1 IN
        a[1] * bb[k] + a[2] * bb[k - 1] + a[3] * bb[k - 2] + a[4] * bb[k - 3]
        + a[5] * bb[k - 4] + a[6] * bb[k - 5] + a[7] * bb[k - 6] + a[8] * bb[k - 7]
        + a[9] * bb[k - 8] + a[10] * bb[k - 9] + a[11] * bb[k - 10] + a[12] * bb[k - 11]
        + a[13] * bb[k - 12] + a[14] * bb[k - 13] + a[15] * bb[k - 14] + a[16] * bb[k - 15]
        + a[17] * bb[k - 16] + a[18] * bb[k - 17] + a[19] * bb[k - 18] + a[20] * bb[k - 19]])

\* the upper 20 limbs of a product folded onto the lower: 2^260 counts FeWrap
FeReduce(w) ==
    FeCarry(FeCarry(FeCarry(Eager([i \in 1..FeLimbs |-> w[i] + FeWrap * w[i + FeLimbs]]))))

FeMul(a, b) == FeReduce(FeCarryWide(FeCarryWide(FeProduct(a, FeSpread(b)))))

\* the element 32 little-endian bytes denote
FeFromBytes(bytes) ==
    LET b == Eager([j \in 1..(KeyBytes + 2) |-> IF j <= Len(bytes) THEN bytes[j] ELSE 0])
    IN  Eager([i \in 1..FeLimbs |->
            LET q == (13 * (i - 1)) \div 8
                r == (13 * (i - 1)) % 8
            IN  ((b[q + 1] + 256 * b[q + 2] + 65536 * b[q + 3]) \div Pow2(r)) % FeRadix])

\* the carries taken from the first limb to the last, and the carry out
RECURSIVE FeRipple(_, _, _)
FeRipple(c, i, carry) ==
    IF i > FeLimbs THEN << carry >>
    ELSE << (c[i] + carry) % FeRadix >> \o FeRipple(c, i + 1, (c[i] + carry) \div FeRadix)

\* the limbs r carried, the bits from 2^255 on folded back: each counts 19
FeFoldCarried(r) ==
    Eager([i \in 1..FeLimbs |->
        IF i = 1 THEN r[1] + 19 * ((r[FeLimbs] \div 256) + 32 * r[FeLimbs + 1])
        ELSE IF i = FeLimbs THEN r[i] % 256 ELSE r[i]])

FeFold(c) == FeFoldCarried(FeRipple(c, 1, 0))

\* v less 2^255 - 19 when w, which is v plus 19, reaches 2^255, else v
FeFreeze(v, w) ==
    IF w[FeLimbs] >= 256
    THEN Eager([i \in 1..FeLimbs |-> IF i = FeLimbs THEN w[i] % 256 ELSE w[i]])
    ELSE SubSeq(v, 1, FeLimbs)

\* the value of the limbs v, below 2^255, reduced below 2^255 - 19
FeCanonical(v) ==
    FeFreeze(v, FeRipple(Eager([i \in 1..FeLimbs |-> IF i = 1 THEN v[1] + 19 ELSE v[i]]), 1, 0))

\* the 32 little-endian bytes of the limbs l
FePack(l) ==
    Eager([j \in 1..KeyBytes |->
        LET q == (8 * (j - 1)) \div 13
            r == (8 * (j - 1)) % 13
        IN  ((l[q + 1] + FeRadix * l[q + 2]) \div Pow2(r)) % 256])

\* the 32 little-endian bytes of an element, reduced below 2^255 - 19
FeToBytes(a) == FePack(FeCanonical(FeRipple(FeFold(FeFold(FeFold(a))), 1, 0)) \o << 0 >>)

FeOne == Eager([i \in 1..FeLimbs |-> IF i = 1 THEN 1 ELSE 0])
FeZero == Eager([i \in 1..FeLimbs |-> 0])

\* acc^(2^(hi - lo + 1)) times z^e, e being the bits hi to lo of 2^255 - 21,
\* which are all 1 but bit 2 and bit 4
RECURSIVE FePower(_, _, _, _)
FePower(z, acc, hi, lo) ==
    IF hi = lo
    THEN LET sq == FeMul(acc, acc)
         IN  IF lo = 2 \/ lo = 4 THEN sq ELSE FeMul(sq, z)
    ELSE LET mid == (hi + lo + 1) \div 2
             upper == FePower(z, acc, hi, mid)
         IN  IF Len(upper) = FeLimbs THEN FePower(z, upper, mid - 1, lo) ELSE upper

\* z^(p - 2), the inverse of z
FeInvert(z) == FePower(z, FeOne, 254, 0)

\* (486662 - 2) / 4, the constant of the curve in the ladder
A24 == (486662 - 2) \div 4

\* the u-coordinate of the base point
BasePoint == [k \in 1..KeyBytes |-> IF k = 1 THEN 9 ELSE 0]

\* adjustScalarBytes: the three low bits of the first byte cleared, of the
\* last byte the top bit cleared and the next one set
adjustScalarBytes(bytes) ==
    Eager([j \in 1..KeyBytes |->
        IF j = 1 THEN bytes[j] - (bytes[j] % 8)
        ELSE IF j = KeyBytes THEN (bytes[j] % 64) + 64 ELSE bytes[j]])

\* bit t of a scalar
ScalarBit(k, t) == (k[(t \div 8) + 1] \div Pow2(t % 8)) % 2

\* one step of the Montgomery ladder (RFC 7748, section 5) on the points
\* (x2 : z2) and (x3 : z3), already swapped for the bit kt of the scalar.
\* The last part, from AA, BB, E = AA - BB, DA + CB and DA - CB:
LadderResults(AA, BB, E, sum, diff, kt, x1) ==
    [x2 |-> FeMul(AA, BB),
     z2 |-> FeMul(E, FeAdd(AA, FeScale(E, A24))),
     x3 |-> FeMul(sum, sum),
     z3 |-> FeMul(x1, FeMul(diff, diff)),
     swap |-> kt]

\* from AA, BB, DA and CB
LadderProducts(AA, BB, DA, CB, kt, x1) ==
    LadderResults(AA, BB, FeSub(AA, BB), FeAdd(DA, CB), FeSub(DA, CB), kt, x1)

\* from A = x2 + z2, B = x2 - z2, C = x3 + z3 and D = x3 - z3
LadderSums(A, B, C, D, kt, x1) ==
    LadderProducts(FeMul(A, A), FeMul(B, B), FeMul(D, A), FeMul(C, B), kt, x1)

LadderPoints(x2, z2, x3, z3, kt, x1) ==
    LadderSums(FeAdd(x2, z2), FeSub(x2, z2), FeAdd(x3, z3), FeSub(x3, z3), kt, x1)

\* one step for the bit kt of the scalar: the two points are swapped when
\* the bit differs from the last one
LadderStep(s, kt, x1) ==
    IF s.swap # kt
    THEN LadderPoints(s.x3, s.z3, s.x2, s.z2, kt, x1)
    ELSE LadderPoints(s.x2, s.z2, s.x3, s.z3, kt, x1)

\* the steps for the bits hi down to lo
RECURSIVE Ladder(_, _, _, _, _)
Ladder(k, x1, s, hi, lo) ==
    IF hi = lo THEN LadderStep(s, ScalarBit(k, hi), x1)
    ELSE LET mid == (hi + lo + 1) \div 2
             upper == Ladder(k, x1, s, hi, mid)
         IN  IF upper.swap \in {0, 1} THEN Ladder(k, x1, upper, mid - 1, lo) ELSE upper

\* x2 / z2 of the point the ladder ends on, after the last swap
LadderEnd(s) ==
    IF s.swap = 1 THEN FeToBytes(FeMul(s.x3, FeInvert(s.z3)))
                  ELSE FeToBytes(FeMul(s.x2, FeInvert(s.z2)))

\* the ladder over the bits 254 to 0 of the scalar k from the point x1
LadderFrom(k, x1) ==
    LadderEnd(Ladder(k, x1, [x2 |-> FeOne, z2 |-> FeZero, x3 |-> x1, z3 |-> FeOne, swap |-> 0],
                     254, 0))

\* the u-coordinate of scalar times the point of u-coordinate u: the scalar
\* adjusted, the top bit of u ignored and u taken modulo 2^255 - 19
montgomeryLadder(scalar, u) == LadderFrom(adjustScalarBytes(scalar), FeFromBytes(MaskedKey(u)))

\* the 32 bytes of a small number
Bytes32(x) == [k \in 1..KeyBytes |-> IF k = 1 THEN x ELSE 0]

\* the private keys and the public keys of the two parties of the test
\* vectors of RFC 7748, section 6.1
RemotePrivateKey1 ==
    << 119, 7, 109, 10, 115, 24, 165, 125, 60, 22, 193, 114, 81, 178, 102, 69,
       223, 76, 47, 135, 235, 192, 153, 42, 177, 119, 251, 165, 29, 185, 44, 42 >>
RemotePrivateKey2 ==
    << 93, 171, 8, 126, 98, 74, 138, 75, 121, 225, 127, 139, 131, 128, 14, 230,
       111, 59, 177, 41, 38, 24, 182, 253, 28, 47, 139, 39, 255, 136, 224, 235 >>

\* the values of montgomeryLadder at the adjusted scalars and the
\* u-coordinates the specifications draw, computed once with it: of the
\* ephemeral keys and the remote private keys with the base point, of the
\* ephemeral keys with the keys encryptSecrets accepts, and of the remote
\* private keys with the ephemeral public keys
KnownProducts ==
    {
       [scalar |-> << 0, 0, 0, 0, 0, 0, 0, 0, 0, 0, 0, 0, 0, 0, 0, 0,
                      0, 0, 0, 0, 0, 0, 0, 0, 0, 0, 0, 0, 0, 0, 0, 64 >>,
        u |-> << 9, 0, 0, 0, 0, 0, 0, 0, 0, 0, 0, 0, 0, 0, 0, 0,
                 0, 0, 0, 0, 0, 0, 0, 0, 0, 0, 0, 0, 0, 0, 0, 0 >>,
        product |-> << 47, 229, 125, 163, 71, 205, 98, 67, 21, 40, 218, 172, 95, 187, 41, 7,
                       48, 255, 246, 132, 175, 196, 207, 194, 237, 144, 153, 95, 88, 203, 59, 116 >>],
       [scalar |-> << 8, 0, 0, 0, 0, 0, 0, 0, 0, 0, 0, 0, 0, 0, 0, 0,
                      0, 0, 0, 0, 0, 0, 0, 0, 0, 0, 0, 0, 0, 0, 0, 64 >>,
        u |-> << 9, 0, 0, 0, 0, 0, 0, 0, 0, 0, 0, 0, 0, 0, 0, 0,
                 0, 0, 0, 0, 0, 0, 0, 0, 0, 0, 0, 0, 0, 0, 0, 0 >>,
        product |-> << 66, 44, 142, 122, 98, 39, 215, 188, 161, 53, 11, 62, 43, 183, 39, 159,
                       120, 151, 184, 123, 182, 133, 75, 120, 60, 96, 232, 3, 17, 174, 48, 121 >>],
       [scalar |-> << 112, 7, 109, 10, 115, 24, 165, 125, 60, 22, 193, 114, 81, 178, 102, 69,
                      223, 76, 47, 135, 235, 192, 153, 42, 177, 119, 251, 165, 29, 185, 44, 106 >>,
        u |-> << 9, 0, 0, 0, 0, 0, 0, 0, 0, 0, 0, 0, 0, 0, 0, 0,
                 0, 0, 0, 0, 0, 0, 0, 0, 0, 0, 0, 0, 0, 0, 0, 0 >>,
        product |-> << 133, 32, 240, 9, 137, 48, 167, 84, 116, 139, 125, 220, 180, 62, 247, 90,
                       13, 191, 58, 13, 38, 56, 26, 244, 235, 164, 169, 142, 170, 155, 78, 106 >>],
       [scalar |-> << 88, 171, 8, 126, 98, 74, 138, 75, 121, 225, 127, 139, 131, 128, 14, 230,
                      111, 59, 177, 41, 38, 24, 182, 253, 28, 47, 139, 39, 255, 136, 224, 107 >>,
        u |-> << 9, 0, 0, 0, 0, 0, 0, 0, 0, 0, 0, 0, 0, 0, 0, 0,
                 0, 0, 0, 0, 0, 0, 0, 0, 0, 0, 0, 0, 0, 0, 0, 0 >>,
        product |-> << 222, 158, 219, 125, 123, 125, 193, 180, 211, 91, 97, 194, 236, 228, 53, 55,
                       63, 131, 67, 200, 91, 120, 103, 77, 173, 252, 126, 20, 111, 136, 43, 79 >>],
       [scalar |-> << 0, 0, 0, 0, 0, 0, 0, 0, 0, 0, 0, 0, 0, 0, 0, 0,
                      0, 0, 0, 0, 0, 0, 0, 0, 0, 0, 0, 0, 0, 0, 0, 64 >>,
        u |-> << 133, 32, 240, 9, 137, 48, 167, 84, 116, 139, 125, 220, 180, 62, 247, 90,
                 13, 191, 58, 13, 38, 56, 26, 244, 235, 164, 169, 142, 170, 155, 78, 106 >>,
        product |-> << 33, 8, 173, 246, 175, 232, 136, 59, 119, 172, 86, 94, 128, 113, 89, 190,
                       100, 111, 127, 53, 39, 91, 176, 169, 188, 78, 210, 151, 89, 238, 102, 91 >>],
       [scalar |-> << 0, 0, 0, 0, 0, 0, 0, 0, 0, 0, 0, 0, 0, 0, 0, 0,
                      0, 0, 0, 0, 0, 0, 0, 0, 0, 0, 0, 0, 0, 0, 0, 64 >>,
        u |-> << 222, 158, 219, 125, 123, 125, 193, 180, 211, 91, 97, 194, 236, 228, 53, 55,
                 63, 131, 67, 200, 91, 120, 103, 77, 173, 252, 126, 20, 111, 136, 43, 79 >>,
        product |-> << 171, 42, 127, 66, 156, 87, 227, 96, 188, 76, 210, 251, 17, 222, 82, 82,
                       172, 250, 198, 139, 240, 117, 205, 100, 196, 245, 144, 9, 170, 96, 79, 49 >>],
       [scalar |-> << 0, 0, 0, 0, 0, 0, 0, 0, 0, 0, 0, 0, 0, 0, 0, 0,
                      0, 0, 0, 0, 0, 0, 0, 0, 0, 0, 0, 0, 0, 0, 0, 64 >>,
        u |-> << 170, 170, 170, 170, 170, 170, 170, 170, 170, 170, 170, 170, 170, 170, 170, 170,
                 170, 170, 170, 170, 170, 170, 170, 170, 170, 170, 170, 170, 170, 170, 170, 42 >>,
        product |-> << 160, 177, 117, 173, 140, 112, 174, 24, 149, 49, 153, 82, 77, 220, 40, 106,
                       100, 121, 158, 185, 250, 211, 144, 242, 13, 251, 197, 57, 25, 82, 59, 44 >>],
       [scalar |-> << 0, 0, 0, 0, 0, 0, 0, 0, 0, 0, 0, 0, 0, 0, 0, 0,
                      0, 0, 0, 0, 0, 0, 0, 0, 0, 0, 0, 0, 0, 0, 0, 64 >>,
        u |-> << 0, 170, 170, 170, 170, 170, 170, 170, 170, 170, 170, 170, 170, 170, 170, 170,
                 170, 170, 170, 170, 170, 170, 170, 170, 170, 170, 170, 170, 170, 170, 170, 42 >>,
        product |-> << 122, 201, 144, 191, 217, 237, 20, 34, 87, 52, 227, 68, 33, 225, 126, 44,
                       44, 19, 97, 56, 225, 188, 116, 248, 147, 233, 131, 125, 85, 188, 174, 88 >>],
       [scalar |-> << 0, 0, 0, 0, 0, 0, 0, 0, 0, 0, 0, 0, 0, 0, 0, 0,
                      0, 0, 0, 0, 0, 0, 0, 0, 0, 0, 0, 0, 0, 0, 0, 64 >>,
        u |-> << 254, 254, 254, 254, 254, 254, 254, 254, 254, 254, 254, 254, 254, 254, 254, 254,
                 254, 254, 254, 254, 254, 254, 254, 254, 254, 254, 254, 254, 254, 254, 254, 126 >>,
        product |-> << 74, 87, 218, 0, 111, 161, 234, 75, 190, 204, 56, 156, 6, 131, 222, 29,
                       202, 128, 56, 65, 167, 60, 124, 231, 119, 232, 249, 104, 185, 110, 185, 4 >>],
       [scalar |-> << 8, 0, 0, 0, 0, 0, 0, 0, 0, 0, 0, 0, 0, 0, 0, 0,
                      0, 0, 0, 0, 0, 0, 0, 0, 0, 0, 0, 0, 0, 0, 0, 64 >>,
        u |-> << 133, 32, 240, 9, 137, 48, 167, 84, 116, 139, 125, 220, 180, 62, 247, 90,
                 13, 191, 58, 13, 38, 56, 26, 244, 235, 164, 169, 142, 170, 155, 78, 106 >>,
        product |-> << 15, 34, 138, 14, 29, 35, 175, 84, 71, 140, 188, 218, 44, 4, 219, 52,
                       136, 248, 23, 152, 238, 21, 63, 189, 105, 205, 192, 145, 91, 185, 176, 105 >>],
       [scalar |-> << 8, 0, 0, 0, 0, 0, 0, 0, 0, 0, 0, 0, 0, 0, 0, 0,
                      0, 0, 0, 0, 0, 0, 0, 0, 0, 0, 0, 0, 0, 0, 0, 64 >>,
        u |-> << 222, 158, 219, 125, 123, 125, 193, 180, 211, 91, 97, 194, 236, 228, 53, 55,
                 63, 131, 67, 200, 91, 120, 103, 77, 173, 252, 126, 20, 111, 136, 43, 79 >>,
        product |-> << 157, 47, 214, 1, 108, 131, 14, 177, 229, 92, 117, 119, 146, 227, 160, 159,
                       209, 236, 228, 89, 194, 32, 46, 94, 215, 33, 153, 54, 205, 238, 109, 38 >>],
       [scalar |-> << 8, 0, 0, 0, 0, 0, 0, 0, 0, 0, 0, 0, 0, 0, 0, 0,
                      0, 0, 0, 0, 0, 0, 0, 0, 0, 0, 0, 0, 0, 0, 0, 64 >>,
        u |-> << 170, 170, 170, 170, 170, 170, 170, 170, 170, 170, 170, 170, 170, 170, 170, 170,
                 170, 170, 170, 170, 170, 170, 170, 170, 170, 170, 170, 170, 170, 170, 170, 42 >>,
        product |-> << 152, 62, 156, 248, 1, 132, 63, 113, 188, 23, 33, 56, 161, 34, 205, 222,
                       89, 151, 185, 66, 88, 195, 221, 254, 52, 14, 76, 8, 106, 101, 10, 60 >>],
       [scalar |-> << 8, 0, 0, 0, 0, 0, 0, 0, 0, 0, 0, 0, 0, 0, 0, 0,
                      0, 0, 0, 0, 0, 0, 0, 0, 0, 0, 0, 0, 0, 0, 0, 64 >>,
        u |-> << 0, 170, 170, 170, 170, 170, 170, 170, 170, 170, 170, 170, 170, 170, 170, 170,
                 170, 170, 170, 170, 170, 170, 170, 170, 170, 170, 170, 170, 170, 170, 170, 42 >>,
        product |-> << 191, 196, 195, 154, 26, 64, 8, 215, 140, 101, 1, 189, 127, 159, 191, 25,
                       239, 228, 109, 60, 59, 192, 253, 230, 129, 215, 143, 205, 198, 166, 206, 59 >>],
       [scalar |-> << 8, 0, 0, 0, 0, 0, 0, 0, 0, 0, 0, 0, 0, 0, 0, 0,
                      0, 0, 0, 0, 0, 0, 0, 0, 0, 0, 0, 0, 0, 0, 0, 64 >>,
        u |-> << 254, 254, 254, 254, 254, 254, 254, 254, 254, 254, 254, 254, 254, 254, 254, 254,
                 254, 254, 254, 254, 254, 254, 254, 254, 254, 254, 254, 254, 254, 254, 254, 126 >>,
        product |-> << 20, 56, 190, 18, 174, 93, 240, 251, 102, 20, 219, 242, 174, 160, 33, 103,
                       125, 64, 105, 140, 225, 110, 182, 242, 191, 29, 18, 207, 15, 185, 112, 120 >>],
       [scalar |-> << 112, 7, 109, 10, 115, 24, 165, 125, 60, 22, 193, 114, 81, 178, 102, 69,
                      223, 76, 47, 135, 235, 192, 153, 42, 177, 119, 251, 165, 29, 185, 44, 106 >>,
        u |-> << 47, 229, 125, 163, 71, 205, 98, 67, 21, 40, 218, 172, 95, 187, 41, 7,
                 48, 255, 246, 132, 175, 196, 207, 194, 237, 144, 153, 95, 88, 203, 59, 116 >>,
        product |-> << 33, 8, 173, 246, 175, 232, 136, 59, 119, 172, 86, 94, 128, 113, 89, 190,
                       100, 111, 127, 53, 39, 91, 176, 169, 188, 78, 210, 151, 89, 238, 102, 91 >>],
       [scalar |-> << 112, 7, 109, 10, 115, 24, 165, 125, 60, 22, 193, 114, 81, 178, 102, 69,
                      223, 76, 47, 135, 235, 192, 153, 42, 177, 119, 251, 165, 29, 185, 44, 106 >>,
        u |-> << 66, 44, 142, 122, 98, 39, 215, 188, 161, 53, 11, 62, 43, 183, 39, 159,
                 120, 151, 184, 123, 182, 133, 75, 120, 60, 96, 232, 3, 17, 174, 48, 121 >>,
        product |-> << 15, 34, 138, 14, 29, 35, 175, 84, 71, 140, 188, 218, 44, 4, 219, 52,
                       136, 248, 23, 152, 238, 21, 63, 189, 105, 205, 192, 145, 91, 185, 176, 105 >>],
       [scalar |-> << 88, 171, 8, 126, 98, 74, 138, 75, 121, 225, 127, 139, 131, 128, 14, 230,
                      111, 59, 177, 41, 38, 24, 182, 253, 28, 47, 139, 39, 255, 136, 224, 107 >>,
        u |-> << 47, 229, 125, 163, 71, 205, 98, 67, 21, 40, 218, 172, 95, 187, 41, 7,
                 48, 255, 246, 132, 175, 196, 207, 194, 237, 144, 153, 95, 88, 203, 59, 116 >>,
        product |-> << 171, 42, 127, 66, 156, 87, 227, 96, 188, 76, 210, 251, 17, 222, 82, 82,
                       172, 250, 198, 139, 240, 117, 205, 100, 196, 245, 144, 9, 170, 96, 79, 49 >>],
       [scalar |-> << 88, 171, 8, 126, 98, 74, 138, 75, 121, 225, 127, 139, 131, 128, 14, 230,
                      111, 59, 177, 41, 38, 24, 182, 253, 28, 47, 139, 39, 255, 136, 224, 107 >>,
        u |-> << 66, 44, 142, 122, 98, 39, 215, 188, 161, 53, 11, 62, 43, 183, 39, 159,
                 120, 151, 184, 123, 182, 133, 75, 120, 60, 96, 232, 3, 17, 174, 48, 121 >>,
        product |-> << 157, 47, 214, 1, 108, 131, 14, 177, 229, 92, 117, 119, 146, 227, 160, 159,
                       209, 236, 228, 89, 194, 32, 46, 94, 215, 33, 153, 54, 205, 238, 109, 38 >>] }

\* scalarMult(scalar, u): the ladder, its known values looked up
scalarMult(scalar, u) ==
    LET k == adjustScalarBytes(scalar)
        m == MaskedKey(u)
    IN  IF \E e \in KnownProducts : e.scalar = k /\ e.u = m
        THEN (CHOOSE e \in KnownProducts : e.scalar = k /\ e.u = m).product
        ELSE montgomeryLadder(scalar, u)

\* x25519.getPublicKey(privateKey)
getPublicKey(privateKey) == scalarMult(privateKey, BasePoint)

\* x25519.getSharedSecret(privateKey, publicKey), for a public key it does
\* not reject
getSharedSecret(privateKey, publicKey) == scalarMult(privateKey, publicKey)

----------------------------------------------------------------------------
(* AES-256 in Galois/Counter Mode (FIPS 197, NIST SP 800-38D), the cipher of
   WebCrypto behind crypto.subtle.encrypt, with a nonce of 12 bytes, no
   additional data and a tag of 16 bytes *)

NonceBytes == 12
TagBytes == 16
\* a block of AES is 128 bits
BlockBytes == 128 \div 8

\* the exclusive or of the n low bits of a and b
RECURSIVE XorBits(_, _, _)
XorBits(a, b, n) ==
    IF n = 0 THEN 0 ELSE ((a + b) % 2) + 2 * XorBits(a \div 2, b \div 2, n - 1)

XorNibbles == Eager([a \in 1..16 |-> Eager([b \in 1..16 |-> XorBits(a - 1, b - 1, 4)])])

\* the exclusive or of two bytes
Xor(a, b) ==
    16 * XorNibbles[(a \div 16) + 1][(b \div 16) + 1] + XorNibbles[(a % 16) + 1][(b % 16) + 1]

XorBytes(a, b) == Eager([i \in 1..Len(a) |-> Xor(a[i], b[i])])

\* the substitution box of AES
SBox ==
    << 99, 124, 119, 123, 242, 107, 111, 197,  48,   1, 103,  43, 254, 215, 171, 118,
       202, 130, 201, 125, 250,  89,  71, 240, 173, 212, 162, 175, 156, 164, 114, 192,
       183, 253, 147,  38,  54,  63, 247, 204,  52, 165, 229, 241, 113, 216,  49,  21,
         4, 199,  35, 195,  24, 150,   5, 154,   7,  18, 128, 226, 235,  39, 178, 117,
         9, 131,  44,  26,  27, 110,  90, 160,  82,  59, 214, 179,  41, 227,  47, 132,
        83, 209,   0, 237,  32, 252, 177,  91, 106, 203, 190,  57,  74,  76,  88, 207,
       208, 239, 170, 251,  67,  77,  51, 133,  69, 249,   2, 127,  80,  60, 159, 168,
        81, 163,  64, 143, 146, 157,  56, 245, 188, 182, 218,  33,  16, 255, 243, 210,
       205,  12,  19, 236,  95, 151,  68,  23, 196, 167, 126,  61, 100,  93,  25, 115,
        96, 129,  79, 220,  34,  42, 144, 136,  70, 238, 184,  20, 222,  94,  11, 219,
       224,  50,  58,  10,  73,   6,  36,  92, 194, 211, 172,  98, 145, 149, 228, 121,
       231, 200,  55, 109, 141, 213,  78, 169, 108,  86, 244, 234, 101, 122, 174,   8,
       186, 120,  37,  46,  28, 166, 180, 198, 232, 221, 116,  31,  75, 189, 139, 138,
       112,  62, 181, 102,  72,   3, 246,  14,  97,  53,  87, 185, 134, 193,  29, 158,
       225, 248, 152,  17, 105, 217, 142, 148, 155,  30, 135, 233, 206,  85,  40, 223,
       140, 161, 137,  13, 191, 230,  66, 104,  65, 153,  45,  15, 176,  84, 187,  22 >>

SubBytes(s) == Eager([i \in 1..Len(s) |-> SBox[s[i] + 1]])

\* multiplication by x in the field of AES
Xtime(b) == IF b < 128 THEN 2 * b ELSE Xor((2 * b) % 256, 27)

\* the round constants of the key schedule of a 256-bit key
Rcon == << 1, 2, 4, 8, 16, 32, 64 >>

RotWord(w) == << w[2], w[3], w[4], w[1] >>

\* what word i of eight takes from the word t before it
KeyTemp(t, n, i) ==
    IF i = 0 THEN XorBytes(SubBytes(RotWord(t)), << Rcon[n], 0, 0, 0 >>)
    ELSE IF i = 4 THEN SubBytes(t) ELSE t

\* the words i to 7 of the eight that follow the eight words prev in the key
\* schedule, t being the word before word i
RECURSIVE NextWordsFrom(_, _, _, _)
RECURSIVE KeepWord(_, _, _, _)
NextWordsFrom(prev, n, t, i) ==
    IF i = 8 THEN <<>>
    ELSE KeepWord(prev, n, XorBytes(SubSeq(prev, 4 * i + 1, 4 * i + 4), KeyTemp(t, n, i)), i)

KeepWord(prev, n, word, i) == word \o NextWordsFrom(prev, n, word, i + 1)

\* the eight words that follow the eight words prev in the key schedule
NextWords(prev, n) == NextWordsFrom(prev, n, SubSeq(prev, 4 * 7 + 1, 4 * 7 + 4), 0)

RECURSIVE ExpandFrom(_, _, _)
ExpandFrom(w, prev, n) ==
    IF n > Len(Rcon) THEN w
    ELSE LET next == NextWords(prev, n)
         IN  IF Len(next) = KeyBytes THEN ExpandFrom(w \o next, next, n + 1) ELSE next

\* the fifteen round keys of a 256-bit key, 240 bytes
KeyExpansion(key) == SubSeq(ExpandFrom(key, key, 1), 1, 15 * BlockBytes)

RoundKey(w, r) == SubSeq(w, BlockBytes * r + 1, BlockBytes * r + BlockBytes)

\* the state is held column by column: row r of column c is byte 4c + r
ShiftRows(s) ==
    Eager([i \in 1..BlockBytes |->
        LET c == (i - 1) \div 4
            r == (i - 1) % 4
        IN  s[4 * ((c + r) % 4) + r + 1]])

MixColumns(s) ==
    Eager([i \in 1..BlockBytes |->
        LET c == 4 * ((i - 1) \div 4)
            r == (i - 1) % 4
            a0 == s[c + r + 1]
            a1 == s[c + ((r + 1) % 4) + 1]
            a2 == s[c + ((r + 2) % 4) + 1]
            a3 == s[c + ((r + 3) % 4) + 1]
        IN  Xor(Xor(Xtime(a0), Xor(Xtime(a1), a1)), Xor(a2, a3))])

\* the rounds r to 14 of the cipher
RECURSIVE Rounds(_, _, _)
Rounds(s, w, r) ==
    IF r = 14 THEN XorBytes(ShiftRows(SubBytes(s)), RoundKey(w, 14))
    ELSE LET next == XorBytes(MixColumns(ShiftRows(SubBytes(s))), RoundKey(w, r))
         IN  IF Len(next) = BlockBytes THEN Rounds(next, w, r + 1) ELSE next

\* one block encrypted with the round keys w
AesCipher(w, block) == Rounds(XorBytes(block, RoundKey(w, 0)), w, 1)

ZeroBlock == Eager([i \in 1..BlockBytes |-> 0])

\* the reduction polynomial of the field of GHASH
GcmR == Eager([i \in 1..BlockBytes |-> IF i = 1 THEN 225 ELSE 0])

ShiftRight(v) ==
    Eager([j \in 1..BlockBytes |->
        (v[j] \div 2) + (IF j = 1 THEN 0 ELSE 128 * (v[j - 1] % 2))])

\* bit i of a block, the first bit being the top bit of the first byte
BlockBit(b, i) == (b[(i \div 8) + 1] \div Pow2(7 - (i % 8))) % 2

\* one step of the multiplication of two blocks, for one bit of the first
GfStep(s, bit) ==
    [z |-> IF bit = 1 THEN XorBytes(s.z, s.v) ELSE s.z,
     v |-> IF s.v[BlockBytes] % 2 = 1 THEN XorBytes(ShiftRight(s.v), GcmR)
                                      ELSE ShiftRight(s.v)]

RECURSIVE GfSteps(_, _, _, _)
GfSteps(s, xb, lo, hi) ==
    IF lo = hi THEN GfStep(s, BlockBit(xb, lo))
    ELSE LET mid == (lo + hi) \div 2
             first == GfSteps(s, xb, lo, mid)
         IN  IF Len(first.z) = BlockBytes THEN GfSteps(first, xb, mid + 1, hi) ELSE first

\* the product of two blocks in the field of GHASH
GfMul(xb, yb) == GfSteps([z |-> ZeroBlock, v |-> yb], xb, 0, 8 * BlockBytes - 1).z

\* GHASH over the blocks lo to hi of data, from the value y
RECURSIVE GHashFrom(_, _, _, _, _)
GHashFrom(h, data, y, lo, hi) ==
    IF lo = hi
    THEN GfMul(XorBytes(y, SubSeq(data, BlockBytes * lo - BlockBytes + 1, BlockBytes * lo)), h)
    ELSE LET mid == (lo + hi) \div 2
             first == GHashFrom(h, data, y, lo, mid)
         IN  IF Len(first) = BlockBytes THEN GHashFrom(h, data, first, mid + 1, hi) ELSE first

GHash(h, data) == GHashFrom(h, data, ZeroBlock, 1, Len(data) \div BlockBytes)

\* the four big-endian bytes of a number
Word32(n) ==
    << (n \div 16777216) % 256, (n \div 65536) % 256, (n \div 256) % 256, n % 256 >>

\* data in counter mode: block b is combined with the encryption of the nonce
\* followed by the counter b + 1
GcmCounterMode(w, iv, data) ==
    LET n == (Len(data) + BlockBytes - 1) \div BlockBytes
        stream == Eager([b \in 1..n |-> AesCipher(w, iv \o Word32(b + 1))])
    IN  Eager([j \in 1..Len(data) |->
            Xor(data[j], stream[((j - 1) \div BlockBytes) + 1][((j - 1) % BlockBytes) + 1])])

\* the tag of a ciphertext: GHASH of the ciphertext padded to whole blocks and
\* of the block of the two lengths, combined with the encryption of the nonce
\* followed by the counter 1
GcmTag(w, iv, ct) ==
    LET n == (Len(ct) + BlockBytes - 1) \div BlockBytes
        padded == Eager([j \in 1..(BlockBytes * n) |-> IF j <= Len(ct) THEN ct[j] ELSE 0])
        lengths == << 0, 0, 0, 0, 0, 0, 0, 0, 0, 0, 0, 0 >> \o Word32(8 * Len(ct))
    IN  XorBytes(GHash(AesCipher(w, ZeroBlock), padded \o lengths), AesCipher(w, iv \o Word32(1)))

\* the ciphertext followed by its tag
Tagged(w, iv, ct) == ct \o GcmTag(w, iv, ct)

\* data sealed with the round keys w
SealWith(w, iv, data) == Tagged(w, iv, GcmCounterMode(w, iv, data))

AesGcmSeal(key, iv, data) == SealWith(KeyExpansion(key), iv, data)

\* the plaintext of the ciphertext ct, refused when tag is not its tag
OpenWith(w, iv, ct, tag) ==
    IF tag = GcmTag(w, iv, ct)
    THEN [ok |-> TRUE, data |-> GcmCounterMode(w, iv, ct)]
    ELSE [ok |-> FALSE, data |-> <<>>]

\* the plaintext of a ciphertext with tag
AesGcmOpen(key, iv, sealed) ==
    IF Len(sealed) < TagBytes THEN [ok |-> FALSE, data |-> <<>>]
    ELSE OpenWith(KeyExpansion(key), iv, SubSeq(sealed, 1, Len(sealed) - TagBytes),
                  SubSeq(sealed, Len(sealed) - TagBytes + 1, Len(sealed)))

----------------------------------------------------------------------------
(* The arguments and the random draws of the direct calls of encryptSecrets *)

\* private keys of the remote party, whose public keys are the valid keys
RemotePrivateKeys == { RemotePrivateKey1, RemotePrivateKey2 }

\* x25519.getPublicKey of the two, in hex
ValidKey1 ==
    << 56, 53, 50, 48, 102, 48, 48, 57, 56, 57, 51, 48, 97, 55, 53, 52,
       55, 52, 56, 98, 55, 100, 100, 99, 98, 52, 51, 101, 102, 55, 53, 97,
       48, 100, 98, 102, 51, 97, 48, 100, 50, 54, 51, 56, 49, 97, 102, 52,
       101, 98, 97, 52, 97, 57, 56, 101, 97, 97, 57, 98, 52, 101, 54, 97 >>
ValidKey2 ==
    << 100, 101, 57, 101, 100, 98, 55, 100, 55, 98, 55, 100, 99, 49, 98, 52,
       100, 51, 53, 98, 54, 49, 99, 50, 101, 99, 101, 52, 51, 53, 51, 55,
       51, 102, 56, 51, 52, 51, 99, 56, 53, 98, 55, 56, 54, 55, 52, 100,
       97, 100, 102, 99, 55, 101, 49, 52, 54, 102, 56, 56, 50, 98, 52, 102 >>
ValidKeys == { ValidKey1, ValidKey2 }

\* 64 characters, the first two of them no hex digits
NonHexKey == << 122, 122 >> \o Repeat(97, 64 - 2)   \* "zz" and 62 times "a"

\* 32 pairs "-2", which parseInt reads as -2 and the byte array stores as 254
SignedKey == [k \in 1..64 |-> IF k % 2 = 1 THEN 45 ELSE 50]

\* the u-coordinate 1, a point of small order
SmallOrderKey == << 48, 49 >> \o Repeat(48, 64 - 2)   \* "01" and 62 times "0"

\* what is passed as pubkey: valid keys, bare and with the 0x prefix, a key
\* with an odd number of digits, one of one byte, keys with characters that
\* are no hex digits, and a key of small order
EncryptKeys ==
    ValidKeys \cup { << 48, 120 >> \o ValidKey1 }
              \cup { KeyA,
                     << 97, 98, 99 >>,       \* "abc"
                     << 97, 98 >>,           \* "ab"
                     << 122, 122, 122 >>,    \* "zzz"
                     NonHexKey,
                     Repeat(122, 64),        \* 64 times "z"
                     SignedKey, SmallOrderKey }

\* no secret, one, two with a carriage return at the end of a value, and one
\* whose value holds a quote, a backslash, a letter of two bytes in UTF-8
\* (U+00E9), the escape character, a character of three bytes (U+20AC), one
\* of four that is a surrogate pair in the string (U+1F600), and a high
\* surrogate with no low surrogate after it
SecretSets ==
    { <<>>,
      << [key |-> << 65 >>, value |-> << 51 >>] >>,
      << [key |-> << 65 >>, value |-> << 51 >>], [key |-> << 66 >>, value |-> << 57, 13 >>] >>,
      << [key |-> << 81 >>,
          value |-> << 97, 34, 92, 233, 27, 8364, 55357, 56832, 55296 >>] >> }

\* what randomPrivateKey() and getRandomValues can return; the first two
\* private keys are adjusted to the same scalar and are one key pair
EphemeralKeys == { Bytes32(3), Bytes32(5), Bytes32(8) }
Nonces == { [k \in 1..NonceBytes |-> n] : n \in {1, 2} }

\* where the random bytes come from: the random source of the platform, or
\* one a test has put in its place, which returns the bytes the test chose
RandomSources == { "system", "injected" }

\* the bytes a test injects: one nonce, and one key pair, whose private key
\* it writes in either of two ways
InjectedKeys == { Bytes32(3), Bytes32(5) }
InjectedNonces == { [k \in 1..NonceBytes |-> 1] }

\* the public keys of the key pairs the calls so far have drawn, and the
\* nonces they have drawn
DrawnKeyPairs(c) == { c.calls[k].publicKey : k \in 1..Len(c.calls) }
DrawnNonces(c) ==
    { c.calls[k].iv :
        k \in { j \in 1..Len(c.calls) : c.calls[j].pc \in {"encrypt", "returned"} } }

\* mutant of randomPrivateKey: the key drawn by the first call is kept for
\* the calls after it
randomPrivateKey_Cached(c) ==
    IF c.calls = <<>>
    THEN (IF c.random = "system" THEN EphemeralKeys ELSE InjectedKeys)
    ELSE { c.calls[1].privateKey }

\* x25519.utils.randomPrivateKey(): the values it can return.  The platform's
\* source does not return a key of a key pair it has returned before; an
\* injected one returns whatever the test chose
randomPrivateKey(c) ==
    IF c.random = "system"
    THEN { k \in EphemeralKeys : getPublicKey(k) \notin DrawnKeyPairs(c) }
    ELSE InjectedKeys

\* crypto.getRandomValues(new Uint8Array(12)): the values it can fill in
getRandomValues(c) ==
    IF c.random = "system" THEN Nonces \ DrawnNonces(c) ELSE InjectedNonces

\* the values of AesGcmSeal at the keys, nonces and texts the specification
\* of the direct calls draws, computed once with it
KnownSeals ==
    {
      [key |-> << 33, 8, 173, 246, 175, 232, 136, 59, 119, 172, 86, 94, 128, 113, 89, 190, 100, 111, 127, 53,
                 39, 91, 176, 169, 188, 78, 210, 151, 89, 238, 102, 91 >>,
       iv |-> << 1, 1, 1, 1, 1, 1, 1, 1, 1, 1, 1, 1 >>,
       data |-> << 123, 34, 101, 110, 118, 34, 58, 91, 93, 125 >>,
       sealed |-> << 212, 5, 214, 6, 11, 88, 44, 25, 79, 22, 58, 217, 61, 52, 170, 194, 226, 63, 108, 221,
                    138, 158, 58, 79, 101, 200 >>],
      [key |-> << 33, 8, 173, 246, 175, 232, 136, 59, 119, 172, 86, 94, 128, 113, 89, 190, 100, 111, 127, 53,
                 39, 91, 176, 169, 188, 78, 210, 151, 89, 238, 102, 91 >>,
       iv |-> << 1, 1, 1, 1, 1, 1, 1, 1, 1, 1, 1, 1 >>,
       data |-> << 123, 34, 101, 110, 118, 34, 58, 91, 123, 34, 107, 101, 121, 34, 58, 34, 65, 34, 44, 34,
                  118, 97, 108, 117, 101, 34, 58, 34, 51, 34, 125, 93, 125 >>,
       sealed |-> << 212, 5, 214, 6, 11, 88, 44, 25, 105, 73, 166, 51, 177, 54, 101, 39, 247, 35, 55, 214,
                    62, 153, 243, 114, 229, 161, 78, 85, 171, 156, 38, 44, 33, 82, 56, 14, 220, 174, 11, 31,
                    224, 189, 140, 15, 146, 50, 26, 0, 93 >>],
      [key |-> << 33, 8, 173, 246, 175, 232, 136, 59, 119, 172, 86, 94, 128, 113, 89, 190, 100, 111, 127, 53,
                 39, 91, 176, 169, 188, 78, 210, 151, 89, 238, 102, 91 >>,
       iv |-> << 1, 1, 1, 1, 1, 1, 1, 1, 1, 1, 1, 1 >>,
       data |-> << 123, 34, 101, 110, 118, 34, 58, 91, 123, 34, 107, 101, 121, 34, 58, 34, 65, 34, 44, 34,
                  118, 97, 108, 117, 101, 34, 58, 34, 51, 34, 125, 44, 123, 34, 107, 101, 121, 34, 58, 34,
                  66, 34, 44, 34, 118, 97, 108, 117, 101, 34, 58, 34, 57, 92, 114, 34, 125, 93, 125 >>,
       sealed |-> << 212, 5, 214, 6, 11, 88, 44, 25, 105, 73, 166, 51, 177, 54, 101, 39, 247, 35, 55, 214,
                    62, 153, 243, 114, 229, 161, 78, 85, 171, 156, 38, 93, 39, 202, 163, 146, 161, 233, 115, 255,
                    58, 220, 141, 2, 18, 77, 254, 178, 51, 172, 139, 205, 134, 147, 51, 186, 134, 197, 139, 48,
                    93, 72, 67, 152, 244, 5, 211, 136, 114, 230, 184, 149, 30, 69, 206 >>],
      [key |-> << 33, 8, 173, 246, 175, 232, 136, 59, 119, 172, 86, 94, 128, 113, 89, 190, 100, 111, 127, 53,
                 39, 91, 176, 169, 188, 78, 210, 151, 89, 238, 102, 91 >>,
       iv |-> << 1, 1, 1, 1, 1, 1, 1, 1, 1, 1, 1, 1 >>,
       data |-> << 123, 34, 101, 110, 118, 34, 58, 91, 123, 34, 107, 101, 121, 34, 58, 34, 81, 34, 44, 34,
                  118, 97, 108, 117, 101, 34, 58, 34, 97, 92, 34, 92, 92, 195, 169, 92, 117, 48, 48, 49,
                  98, 226, 130, 172, 240, 159, 152, 128, 92, 117, 100, 56, 48, 48, 34, 125, 93, 125 >>,
       sealed |-> << 212, 5, 214, 6, 11, 88, 44, 25, 105, 73, 166, 51, 177, 54, 101, 39, 231, 35, 55, 214,
                    62, 153, 243, 114, 229, 161, 78, 85, 249, 226, 121, 45, 0, 43, 97, 171, 173, 251, 121, 236,
                    26, 28, 35, 140, 148, 179, 10, 71, 10, 251, 213, 215, 143, 255, 99, 229, 166, 229, 100, 128,
                    52, 24, 139, 8, 232, 212, 186, 11, 127, 34, 120, 183, 152, 35 >>],
      [key |-> << 33, 8, 173, 246, 175, 232, 136, 59, 119, 172, 86, 94, 128, 113, 89, 190, 100, 111, 127, 53,
                 39, 91, 176, 169, 188, 78, 210, 151, 89, 238, 102, 91 >>,
       iv |-> << 2, 2, 2, 2, 2, 2, 2, 2, 2, 2, 2, 2 >>,
       data |-> << 123, 34, 101, 110, 118, 34, 58, 91, 93, 125 >>,
       sealed |-> << 241, 155, 121, 115, 3, 200, 4, 91, 91, 80, 194, 212, 196, 122, 50, 95, 91, 217, 54, 203,
                    204, 203, 86, 229, 250, 82 >>],
      [key |-> << 33, 8, 173, 246, 175, 232, 136, 59, 119, 172, 86, 94, 128, 113, 89, 190, 100, 111, 127, 53,
                 39, 91, 176, 169, 188, 78, 210, 151, 89, 238, 102, 91 >>,
       iv |-> << 2, 2, 2, 2, 2, 2, 2, 2, 2, 2, 2, 2 >>,
       data |-> << 123, 34, 101, 110, 118, 34, 58, 91, 123, 34, 107, 101, 121, 34, 58, 34, 65, 34, 44, 34,
                  118, 97, 108, 117, 101, 34, 58, 34, 51, 34, 125, 93, 125 >>,
       sealed |-> << 241, 155, 121, 115, 3, 200, 4, 91, 125, 15, 210, 184, 86, 63, 149, 89, 200, 6, 100, 94,
                    67, 28, 234, 132, 104, 85, 149, 79, 207, 214, 157, 138, 220, 11, 242, 53, 61, 59, 17, 144,
                    2, 15, 219, 56, 228, 219, 12, 76, 66 >>],
      [key |-> << 33, 8, 173, 246, 175, 232, 136, 59, 119, 172, 86, 94, 128, 113, 89, 190, 100, 111, 127, 53,
                 39, 91, 176, 169, 188, 78, 210, 151, 89, 238, 102, 91 >>,
       iv |-> << 2, 2, 2, 2, 2, 2, 2, 2, 2, 2, 2, 2 >>,
       data |-> << 123, 34, 101, 110, 118, 34, 58, 91, 123, 34, 107, 101, 121, 34, 58, 34, 65, 34, 44, 34,
                  118, 97, 108, 117, 101, 34, 58, 34, 51, 34, 125, 44, 123, 34, 107, 101, 121, 34, 58, 34,
                  66, 34, 44, 34, 118, 97, 108, 117, 101, 34, 58, 34, 57, 92, 114, 34, 125, 93, 125 >>,
       sealed |-> << 241, 155, 121, 115, 3, 200, 4, 91, 125, 15, 210, 184, 86, 63, 149, 89, 200, 6, 100, 94,
                    67, 28, 234, 132, 104, 85, 149, 79, 207, 214, 157, 251, 218, 12, 185, 114, 116, 66, 103, 79,
                    177, 120, 125, 56, 197, 157, 252, 211, 2, 154, 230, 126, 179, 210, 1, 5, 83, 104, 142, 190,
                    64, 236, 178, 78, 160, 254, 223, 71, 212, 96, 146, 61, 152, 172, 88 >>],
      [key |-> << 33, 8, 173, 246, 175, 232, 136, 59, 119, 172, 86, 94, 128, 113, 89, 190, 100, 111, 127, 53,
                 39, 91, 176, 169, 188, 78, 210, 151, 89, 238, 102, 91 >>,
       iv |-> << 2, 2, 2, 2, 2, 2, 2, 2, 2, 2, 2, 2 >>,
       data |-> << 123, 34, 101, 110, 118, 34, 58, 91, 123, 34, 107, 101, 121, 34, 58, 34, 81, 34, 44, 34,
                  118, 97, 108, 117, 101, 34, 58, 34, 97, 92, 34, 92, 92, 195, 169, 92, 117, 48, 48, 49,
                  98, 226, 130, 172, 240, 159, 152, 128, 92, 117, 100, 56, 48, 48, 34, 125, 93, 125 >>,
       sealed |-> << 241, 155, 121, 115, 3, 200, 4, 91, 125, 15, 210, 184, 86, 63, 149, 89, 216, 6, 100, 94,
                    67, 28, 234, 132, 104, 85, 149, 79, 157, 168, 194, 139, 253, 237, 123, 75, 120, 80, 109, 92,
                    145, 184, 211, 182, 67, 99, 8, 38, 59, 205, 184, 100, 186, 190, 81, 90, 115, 72, 48, 170,
                    154, 87, 249, 93, 122, 105, 212, 43, 74, 100, 19, 112, 231, 182 >>],
      [key |-> << 171, 42, 127, 66, 156, 87, 227, 96, 188, 76, 210, 251, 17, 222, 82, 82, 172, 250, 198, 139,
                 240, 117, 205, 100, 196, 245, 144, 9, 170, 96, 79, 49 >>,
       iv |-> << 1, 1, 1, 1, 1, 1, 1, 1, 1, 1, 1, 1 >>,
       data |-> << 123, 34, 101, 110, 118, 34, 58, 91, 93, 125 >>,
       sealed |-> << 48, 187, 60, 249, 153, 41, 126, 126, 8, 22, 220, 3, 47, 92, 152, 121, 189, 249, 151, 247,
                    147, 202, 165, 65, 236, 204 >>],
      [key |-> << 171, 42, 127, 66, 156, 87, 227, 96, 188, 76, 210, 251, 17, 222, 82, 82, 172, 250, 198, 139,
                 240, 117, 205, 100, 196, 245, 144, 9, 170, 96, 79, 49 >>,
       iv |-> << 1, 1, 1, 1, 1, 1, 1, 1, 1, 1, 1, 1 >>,
       data |-> << 123, 34, 101, 110, 118, 34, 58, 91, 123, 34, 107, 101, 121, 34, 58, 34, 65, 34, 44, 34,
                  118, 97, 108, 117, 101, 34, 58, 34, 51, 34, 125, 93, 125 >>,
       sealed |-> << 48, 187, 60, 249, 153, 41, 126, 126, 46, 73, 146, 124, 250, 57, 93, 70, 49, 110, 178, 226,
                    3, 55, 108, 76, 75, 138, 248, 89, 198, 175, 25, 40, 58, 94, 68, 164, 197, 14, 28, 17,
                    5, 61, 178, 219, 28, 95, 60, 202, 28 >>],
      [key |-> << 171, 42, 127, 66, 156, 87, 227, 96, 188, 76, 210, 251, 17, 222, 82, 82, 172, 250, 198, 139,
                 240, 117, 205, 100, 196, 245, 144, 9, 170, 96, 79, 49 >>,
       iv |-> << 1, 1, 1, 1, 1, 1, 1, 1, 1, 1, 1, 1 >>,
       data |-> << 123, 34, 101, 110, 118, 34, 58, 91, 123, 34, 107, 101, 121, 34, 58, 34, 65, 34, 44, 34,
                  118, 97, 108, 117, 101, 34, 58, 34, 51, 34, 125, 44, 123, 34, 107, 101, 121, 34, 58, 34,
                  66, 34, 44, 34, 118, 97, 108, 117, 101, 34, 58, 34, 57, 92, 114, 34, 125, 93, 125 >>,
       sealed |-> << 48, 187, 60, 249, 153, 41, 126, 126, 46, 73, 146, 124, 250, 57, 93, 70, 49, 110, 178, 226,
                    3, 55, 108, 76, 75, 138, 248, 89, 198, 175, 25, 89, 60, 155, 64, 250, 164, 191, 219, 40,
                    2, 91, 69, 209, 97, 5, 206, 52, 150, 121, 105, 76, 47, 190, 141, 132, 14, 160, 180, 131,
                    137, 232, 61, 19, 71, 51, 59, 180, 145, 253, 131, 155, 72, 103, 139 >>],
      [key |-> << 171, 42, 127, 66, 156, 87, 227, 96, 188, 76, 210, 251, 17, 222, 82, 82, 172, 250, 198, 139,
                 240, 117, 205, 100, 196, 245, 144, 9, 170, 96, 79, 49 >>,
       iv |-> << 1, 1, 1, 1, 1, 1, 1, 1, 1, 1, 1, 1 >>,
       data |-> << 123, 34, 101, 110, 118, 34, 58, 91, 123, 34, 107, 101, 121, 34, 58, 34, 81, 34, 44, 34,
                  118, 97, 108, 117, 101, 34, 58, 34, 97, 92, 34, 92, 92, 195, 169, 92, 117, 48, 48, 49,
                  98, 226, 130, 172, 240, 159, 152, 128, 92, 117, 100, 56, 48, 48, 34, 125, 93, 125 >>,
       sealed |-> << 48, 187, 60, 249, 153, 41, 126, 126, 46, 73, 146, 124, 250, 57, 93, 70, 33, 110, 178, 226,
                    3, 55, 108, 76, 75, 138, 248, 89, 148, 209, 70, 41, 27, 122, 130, 195, 168, 173, 209, 59,
                    34, 155, 235, 95, 231, 251, 58, 193, 175, 46, 55, 86, 38, 210, 221, 219, 46, 128, 8, 216,
                    83, 190, 144, 49, 17, 96, 153, 128, 86, 189, 110, 60, 137, 105 >>],
      [key |-> << 171, 42, 127, 66, 156, 87, 227, 96, 188, 76, 210, 251, 17, 222, 82, 82, 172, 250, 198, 139,
                 240, 117, 205, 100, 196, 245, 144, 9, 170, 96, 79, 49 >>,
       iv |-> << 2, 2, 2, 2, 2, 2, 2, 2, 2, 2, 2, 2 >>,
       data |-> << 123, 34, 101, 110, 118, 34, 58, 91, 93, 125 >>,
       sealed |-> << 138, 177, 97, 217, 226, 188, 253, 117, 82, 71, 10, 205, 138, 70, 227, 129, 171, 9, 39, 189,
                    152, 52, 25, 227, 126, 220 >>],
      [key |-> << 171, 42, 127, 66, 156, 87, 227, 96, 188, 76, 210, 251, 17, 222, 82, 82, 172, 250, 198, 139,
                 240, 117, 205, 100, 196, 245, 144, 9, 170, 96, 79, 49 >>,
       iv |-> << 2, 2, 2, 2, 2, 2, 2, 2, 2, 2, 2, 2 >>,
       data |-> << 123, 34, 101, 110, 118, 34, 58, 91, 123, 34, 107, 101, 121, 34, 58, 34, 65, 34, 44, 34,
                  118, 97, 108, 117, 101, 34, 58, 34, 51, 34, 125, 93, 125 >>,
       sealed |-> << 138, 177, 97, 217, 226, 188, 253, 117, 116, 24, 242, 183, 15, 183, 242, 130, 187, 44, 97, 129,
                    168, 147, 210, 195, 195, 80, 25, 243, 105, 58, 131, 3, 221, 23, 157, 120, 81, 69, 19, 119,
                    201, 145, 41, 162, 12, 18, 29, 137, 199 >>],
      [key |-> << 171, 42, 127, 66, 156, 87, 227, 96, 188, 76, 210, 251, 17, 222, 82, 82, 172, 250, 198, 139,
                 240, 117, 205, 100, 196, 245, 144, 9, 170, 96, 79, 49 >>,
       iv |-> << 2, 2, 2, 2, 2, 2, 2, 2, 2, 2, 2, 2 >>,
       data |-> << 123, 34, 101, 110, 118, 34, 58, 91, 123, 34, 107, 101, 121, 34, 58, 34, 65, 34, 44, 34,
                  118, 97, 108, 117, 101, 34, 58, 34, 51, 34, 125, 44, 123, 34, 107, 101, 121, 34, 58, 34,
                  66, 34, 44, 34, 118, 97, 108, 117, 101, 34, 58, 34, 57, 92, 114, 34, 125, 93, 125 >>,
       sealed |-> << 138, 177, 97, 217, 226, 188, 253, 117, 116, 24, 242, 183, 15, 183, 242, 130, 187, 44, 97, 129,
                    168, 147, 210, 195, 195, 80, 25, 243, 105, 58, 131, 114, 219, 163, 104, 255, 241, 208, 115, 205,
                    180, 167, 82, 150, 65, 22, 104, 148, 9, 136, 3, 173, 68, 66, 139, 102, 96, 179, 225, 152,
                    18, 234, 184, 182, 248, 171, 59, 86, 223, 7, 88, 31, 82, 81, 205 >>],
      [key |-> << 171, 42, 127, 66, 156, 87, 227, 96, 188, 76, 210, 251, 17, 222, 82, 82, 172, 250, 198, 139,
                 240, 117, 205, 100, 196, 245, 144, 9, 170, 96, 79, 49 >>,
       iv |-> << 2, 2, 2, 2, 2, 2, 2, 2, 2, 2, 2, 2 >>,
       data |-> << 123, 34, 101, 110, 118, 34, 58, 91, 123, 34, 107, 101, 121, 34, 58, 34, 81, 34, 44, 34,
                  118, 97, 108, 117, 101, 34, 58, 34, 97, 92, 34, 92, 92, 195, 169, 92, 117, 48, 48, 49,
                  98, 226, 130, 172, 240, 159, 152, 128, 92, 117, 100, 56, 48, 48, 34, 125, 93, 125 >>,
       sealed |-> << 138, 177, 97, 217, 226, 188, 253, 117, 116, 24, 242, 183, 15, 183, 242, 130, 171, 44, 97, 129,
                    168, 147, 210, 195, 195, 80, 25, 243, 59, 68, 220, 2, 252, 66, 170, 198, 253, 194, 121, 222,
                    148, 103, 252, 24, 199, 232, 156, 97, 48, 223, 93, 183, 77, 46, 219, 57, 64, 147, 159, 7,
                    221, 100, 47, 189, 122, 243, 134, 53, 227, 124, 192, 234, 89, 103 >>],
      [key |-> << 160, 177, 117, 173, 140, 112, 174, 24, 149, 49, 153, 82, 77, 220, 40, 106, 100, 121, 158, 185,
                 250, 211, 144, 242, 13, 251, 197, 57, 25, 82, 59, 44 >>,
       iv |-> << 1, 1, 1, 1, 1, 1, 1, 1, 1, 1, 1, 1 >>,
       data |-> << 123, 34, 101, 110, 118, 34, 58, 91, 93, 125 >>,
       sealed |-> << 2, 252, 176, 96, 247, 119, 211, 117, 56, 48, 192, 37, 138, 2, 51, 83, 117, 23, 224, 144,
                    195, 166, 178, 172, 19, 107 >>],
      [key |-> << 160, 177, 117, 173, 140, 112, 174, 24, 149, 49, 153, 82, 77, 220, 40, 106, 100, 121, 158, 185,
                 250, 211, 144, 242, 13, 251, 197, 57, 25, 82, 59, 44 >>,
       iv |-> << 1, 1, 1, 1, 1, 1, 1, 1, 1, 1, 1, 1 >>,
       data |-> << 123, 34, 101, 110, 118, 34, 58, 91, 123, 34, 107, 101, 121, 34, 58, 34, 65, 34, 44, 34,
                  118, 97, 108, 117, 101, 34, 58, 34, 51, 34, 125, 93, 125 >>,
       sealed |-> << 2, 252, 176, 96, 247, 119, 211, 117, 30, 111, 222, 51, 146, 168, 210, 178, 181, 88, 123, 67,
                    80, 69, 31, 20, 177, 197, 163, 75, 236, 116, 152, 176, 213, 172, 135, 181, 8, 93, 146, 137,
                    139, 200, 195, 52, 164, 83, 217, 158, 232 >>],
      [key |-> << 160, 177, 117, 173, 140, 112, 174, 24, 149, 49, 153, 82, 77, 220, 40, 106, 100, 121, 158, 185,
                 250, 211, 144, 242, 13, 251, 197, 57, 25, 82, 59, 44 >>,
       iv |-> << 1, 1, 1, 1, 1, 1, 1, 1, 1, 1, 1, 1 >>,
       data |-> << 123, 34, 101, 110, 118, 34, 58, 91, 123, 34, 107, 101, 121, 34, 58, 34, 65, 34, 44, 34,
                  118, 97, 108, 117, 101, 34, 58, 34, 51, 34, 125, 44, 123, 34, 107, 101, 121, 34, 58, 34,
                  66, 34, 44, 34, 118, 97, 108, 117, 101, 34, 58, 34, 57, 92, 114, 34, 125, 93, 125 >>,
       sealed |-> << 2, 252, 176, 96, 247, 119, 211, 117, 30, 111, 222, 51, 146, 168, 210, 178, 181, 88, 123, 67,
                    80, 69, 31, 20, 177, 197, 163, 75, 236, 116, 152, 193, 211, 200, 246, 166, 255, 121, 204, 187,
                    82, 32, 210, 210, 36, 69, 49, 188, 56, 156, 230, 216, 13, 43, 211, 36, 112, 110, 172, 42,
                    178, 184, 165, 127, 207, 252, 53, 41, 197, 182, 201, 43, 148, 63, 206 >>],
      [key |-> << 160, 177, 117, 173, 140, 112, 174, 24, 149, 49, 153, 82, 77, 220, 40, 106, 100, 121, 158, 185,
                 250, 211, 144, 242, 13, 251, 197, 57, 25, 82, 59, 44 >>,
       iv |-> << 1, 1, 1, 1, 1, 1, 1, 1, 1, 1, 1, 1 >>,
       data |-> << 123, 34, 101, 110, 118, 34, 58, 91, 123, 34, 107, 101, 121, 34, 58, 34, 81, 34, 44, 34,
                  118, 97, 108, 117, 101, 34, 58, 34, 97, 92, 34, 92, 92, 195, 169, 92, 117, 48, 48, 49,
                  98, 226, 130, 172, 240, 159, 152, 128, 92, 117, 100, 56, 48, 48, 34, 125, 93, 125 >>,
       sealed |-> << 2, 252, 176, 96, 247, 119, 211, 117, 30, 111, 222, 51, 146, 168, 210, 178, 165, 88, 123, 67,
                    80, 69, 31, 20, 177, 197, 163, 75, 190, 10, 199, 177, 244, 41, 52, 159, 243, 107, 198, 168,
                    114, 224, 124, 92, 162, 187, 197, 73, 1, 203, 184, 194, 4, 71, 131, 123, 80, 78, 23, 249,
                    67, 130, 116, 125, 85, 73, 223, 236, 220, 194, 68, 103, 59, 1 >>],
      [key |-> << 160, 177, 117, 173, 140, 112, 174, 24, 149, 49, 153, 82, 77, 220, 40, 106, 100, 121, 158, 185,
                 250, 211, 144, 242, 13, 251, 197, 57, 25, 82, 59, 44 >>,
       iv |-> << 2, 2, 2, 2, 2, 2, 2, 2, 2, 2, 2, 2 >>,
       data |-> << 123, 34, 101, 110, 118, 34, 58, 91, 93, 125 >>,
       sealed |-> << 108, 83, 188, 26, 17, 250, 19, 37, 168, 90, 207, 195, 109, 186, 144, 34, 230, 61, 165, 23,
                    11, 26, 70, 201, 136, 248 >>],
      [key |-> << 160, 177, 117, 173, 140, 112, 174, 24, 149, 49, 153, 82, 77, 220, 40, 106, 100, 121, 158, 185,
                 250, 211, 144, 242, 13, 251, 197, 57, 25, 82, 59, 44 >>,
       iv |-> << 2, 2, 2, 2, 2, 2, 2, 2, 2, 2, 2, 2 >>,
       data |-> << 123, 34, 101, 110, 118, 34, 58, 91, 123, 34, 107, 101, 121, 34, 58, 34, 65, 34, 44, 34,
                  118, 97, 108, 117, 101, 34, 58, 34, 51, 34, 125, 93, 125 >>,
       sealed |-> << 108, 83, 188, 26, 17, 250, 19, 37, 142, 5, 56, 54, 111, 192, 96, 172, 147, 250, 20, 1,
                    168, 138, 186, 125, 222, 167, 233, 144, 15, 229, 225, 3, 6, 80, 80, 144, 222, 196, 22, 39,
                    192, 19, 99, 46, 145, 175, 130, 141, 42 >>],
      [key |-> << 160, 177, 117, 173, 140, 112, 174, 24, 149, 49, 153, 82, 77, 220, 40, 106, 100, 121, 158, 185,
                 250, 211, 144, 242, 13, 251, 197, 57, 25, 82, 59, 44 >>,
       iv |-> << 2, 2, 2, 2, 2, 2, 2, 2, 2, 2, 2, 2 >>,
       data |-> << 123, 34, 101, 110, 118, 34, 58, 91, 123, 34, 107, 101, 121, 34, 58, 34, 65, 34, 44, 34,
                  118, 97, 108, 117, 101, 34, 58, 34, 51, 34, 125, 44, 123, 34, 107, 101, 121, 34, 58, 34,
                  66, 34, 44, 34, 118, 97, 108, 117, 101, 34, 58, 34, 57, 92, 114, 34, 125, 93, 125 >>,
       sealed |-> << 108, 83, 188, 26, 17, 250, 19, 37, 142, 5, 56, 54, 111, 192, 96, 172, 147, 250, 20, 1,
                    168, 138, 186, 125, 222, 167, 233, 144, 15, 229, 225, 114, 0, 231, 214, 103, 104, 65, 40, 163,
                    65, 11, 31, 114, 236, 85, 215, 66, 94, 223, 54, 202, 252, 40, 140, 80, 106, 150, 187, 45,
                    80, 24, 102, 20, 29, 19, 243, 204, 122, 232, 55, 212, 142, 241, 117 >>],
      [key |-> << 160, 177, 117, 173, 140, 112, 174, 24, 149, 49, 153, 82, 77, 220, 40, 106, 100, 121, 158, 185,
                 250, 211, 144, 242, 13, 251, 197, 57, 25, 82, 59, 44 >>,
       iv |-> << 2, 2, 2, 2, 2, 2, 2, 2, 2, 2, 2, 2 >>,
       data |-> << 123, 34, 101, 110, 118, 34, 58, 91, 123, 34, 107, 101, 121, 34, 58, 34, 81, 34, 44, 34,
                  118, 97, 108, 117, 101, 34, 58, 34, 97, 92, 34, 92, 92, 195, 169, 92, 117, 48, 48, 49,
                  98, 226, 130, 172, 240, 159, 152, 128, 92, 117, 100, 56, 48, 48, 34, 125, 93, 125 >>,
       sealed |-> << 108, 83, 188, 26, 17, 250, 19, 37, 142, 5, 56, 54, 111, 192, 96, 172, 131, 250, 20, 1,
                    168, 138, 186, 125, 222, 167, 233, 144, 93, 155, 190, 2, 39, 6, 20, 94, 100, 83, 34, 176,
                    97, 203, 177, 252, 106, 171, 35, 183, 103, 136, 104, 208, 245, 68, 220, 15, 74, 182, 137, 232,
                    227, 155, 91, 66, 14, 68, 203, 164, 82, 31, 253, 135, 240, 20 >>],
      [key |-> << 122, 201, 144, 191, 217, 237, 20, 34, 87, 52, 227, 68, 33, 225, 126, 44, 44, 19, 97, 56,
                 225, 188, 116, 248, 147, 233, 131, 125, 85, 188, 174, 88 >>,
       iv |-> << 1, 1, 1, 1, 1, 1, 1, 1, 1, 1, 1, 1 >>,
       data |-> << 123, 34, 101, 110, 118, 34, 58, 91, 93, 125 >>,
       sealed |-> << 100, 209, 2, 4, 142, 130, 46, 96, 131, 32, 48, 232, 180, 220, 36, 32, 236, 3, 205, 173,
                    225, 229, 252, 81, 130, 88 >>],
      [key |-> << 122, 201, 144, 191, 217, 237, 20, 34, 87, 52, 227, 68, 33, 225, 126, 44, 44, 19, 97, 56,
                 225, 188, 116, 248, 147, 233, 131, 125, 85, 188, 174, 88 >>,
       iv |-> << 1, 1, 1, 1, 1, 1, 1, 1, 1, 1, 1, 1 >>,
       data |-> << 123, 34, 101, 110, 118, 34, 58, 91, 123, 34, 107, 101, 121, 34, 58, 34, 65, 34, 44, 34,
                  118, 97, 108, 117, 101, 34, 58, 34, 51, 34, 125, 93, 125 >>,
       sealed |-> << 100, 209, 2, 4, 142, 130, 46, 96, 165, 127, 56, 125, 64, 62, 7, 66, 171, 157, 222, 214,
                    58, 86, 237, 5, 140, 11, 100, 200, 49, 122, 202, 191, 128, 0, 122, 43, 168, 223, 191, 99,
                    252, 155, 70, 18, 208, 8, 159, 32, 228 >>],
      [key |-> << 122, 201, 144, 191, 217, 237, 20, 34, 87, 52, 227, 68, 33, 225, 126, 44, 44, 19, 97, 56,
                 225, 188, 116, 248, 147, 233, 131, 125, 85, 188, 174, 88 >>,
       iv |-> << 1, 1, 1, 1, 1, 1, 1, 1, 1, 1, 1, 1 >>,
       data |-> << 123, 34, 101, 110, 118, 34, 58, 91, 123, 34, 107, 101, 121, 34, 58, 34, 65, 34, 44, 34,
                  118, 97, 108, 117, 101, 34, 58, 34, 51, 34, 125, 44, 123, 34, 107, 101, 121, 34, 58, 34,
                  66, 34, 44, 34, 118, 97, 108, 117, 101, 34, 58, 34, 57, 92, 114, 34, 125, 93, 125 >>,
       sealed |-> << 100, 209, 2, 4, 142, 130, 46, 96, 165, 127, 56, 125, 64, 62, 7, 66, 171, 157, 222, 214,
                    58, 86, 237, 5, 140, 11, 100, 200, 49, 122, 202, 206, 134, 139, 196, 195, 98, 216, 84, 222,
                    37, 163, 210, 231, 32, 135, 65, 217, 130, 102, 156, 90, 232, 125, 178, 43, 64, 217, 25, 188,
                    71, 252, 180, 172, 68, 59, 114, 206, 122, 208, 9, 2, 151, 91, 206 >>],
      [key |-> << 122, 201, 144, 191, 217, 237, 20, 34, 87, 52, 227, 68, 33, 225, 126, 44, 44, 19, 97, 56,
                 225, 188, 116, 248, 147, 233, 131, 125, 85, 188, 174, 88 >>,
       iv |-> << 1, 1, 1, 1, 1, 1, 1, 1, 1, 1, 1, 1 >>,
       data |-> << 123, 34, 101, 110, 118, 34, 58, 91, 123, 34, 107, 101, 121, 34, 58, 34, 81, 34, 44, 34,
                  118, 97, 108, 117, 101, 34, 58, 34, 97, 92, 34, 92, 92, 195, 169, 92, 117, 48, 48, 49,
                  98, 226, 130, 172, 240, 159, 152, 128, 92, 117, 100, 56, 48, 48, 34, 125, 93, 125 >>,
       sealed |-> << 100, 209, 2, 4, 142, 130, 46, 96, 165, 127, 56, 125, 64, 62, 7, 66, 187, 157, 222, 214,
                    58, 86, 237, 5, 140, 11, 100, 200, 99, 4, 149, 190, 161, 106, 6, 250, 110, 202, 94, 205,
                    5, 99, 124, 105, 166, 121, 181, 44, 187, 49, 194, 64, 225, 17, 226, 116, 96, 249, 203, 166,
                    66, 165, 167, 58, 33, 144, 9, 52, 198, 121, 212, 74, 77, 194 >>],
      [key |-> << 122, 201, 144, 191, 217, 237, 20, 34, 87, 52, 227, 68, 33, 225, 126, 44, 44, 19, 97, 56,
                 225, 188, 116, 248, 147, 233, 131, 125, 85, 188, 174, 88 >>,
       iv |-> << 2, 2, 2, 2, 2, 2, 2, 2, 2, 2, 2, 2 >>,
       data |-> << 123, 34, 101, 110, 118, 34, 58, 91, 93, 125 >>,
       sealed |-> << 109, 46, 191, 218, 183, 24, 75, 202, 227, 9, 68, 231, 31, 83, 202, 25, 149, 139, 156, 155,
                    54, 72, 242, 69, 142, 0 >>],
      [key |-> << 122, 201, 144, 191, 217, 237, 20, 34, 87, 52, 227, 68, 33, 225, 126, 44, 44, 19, 97, 56,
                 225, 188, 116, 248, 147, 233, 131, 125, 85, 188, 174, 88 >>,
       iv |-> << 2, 2, 2, 2, 2, 2, 2, 2, 2, 2, 2, 2 >>,
       data |-> << 123, 34, 101, 110, 118, 34, 58, 91, 123, 34, 107, 101, 121, 34, 58, 34, 65, 34, 44, 34,
                  118, 97, 108, 117, 101, 34, 58, 34, 51, 34, 125, 93, 125 >>,
       sealed |-> << 109, 46, 191, 218, 183, 24, 75, 202, 197, 86, 168, 222, 23, 248, 64, 170, 246, 40, 113, 172,
                    183, 137, 209, 202, 205, 76, 179, 132, 249, 95, 203, 197, 17, 141, 211, 177, 189, 199, 54, 49,
                    228, 36, 242, 144, 79, 209, 15, 227, 147 >>],
      [key |-> << 122, 201, 144, 191, 217, 237, 20, 34, 87, 52, 227, 68, 33, 225, 126, 44, 44, 19, 97, 56,
                 225, 188, 116, 248, 147, 233, 131, 125, 85, 188, 174, 88 >>,
       iv |-> << 2, 2, 2, 2, 2, 2, 2, 2, 2, 2, 2, 2 >>,
       data |-> << 123, 34, 101, 110, 118, 34, 58, 91, 123, 34, 107, 101, 121, 34, 58, 34, 65, 34, 44, 34,
                  118, 97, 108, 117, 101, 34, 58, 34, 51, 34, 125, 44, 123, 34, 107, 101, 121, 34, 58, 34,
                  66, 34, 44, 34, 118, 97, 108, 117, 101, 34, 58, 34, 57, 92, 114, 34, 125, 93, 125 >>,
       sealed |-> << 109, 46, 191, 218, 183, 24, 75, 202, 197, 86, 168, 222, 23, 248, 64, 170, 246, 40, 113, 172,
                    183, 137, 209, 202, 205, 76, 179, 132, 249, 95, 203, 180, 23, 6, 183, 3, 165, 1, 97, 157,
                    10, 182, 193, 254, 156, 43, 240, 1, 44, 149, 136, 23, 231, 35, 127, 43, 212, 243, 187, 192,
                    13, 174, 187, 211, 84, 42, 164, 216, 122, 72, 211, 94, 220, 119, 126 >>],
      [key |-> << 122, 201, 144, 191, 217, 237, 20, 34, 87, 52, 227, 68, 33, 225, 126, 44, 44, 19, 97, 56,
                 225, 188, 116, 248, 147, 233, 131, 125, 85, 188, 174, 88 >>,
       iv |-> << 2, 2, 2, 2, 2, 2, 2, 2, 2, 2, 2, 2 >>,
       data |-> << 123, 34, 101, 110, 118, 34, 58, 91, 123, 34, 107, 101, 121, 34, 58, 34, 81, 34, 44, 34,
                  118, 97, 108, 117, 101, 34, 58, 34, 97, 92, 34, 92, 92, 195, 169, 92, 117, 48, 48, 49,
                  98, 226, 130, 172, 240, 159, 152, 128, 92, 117, 100, 56, 48, 48, 34, 125, 93, 125 >>,
       sealed |-> << 109, 46, 191, 218, 183, 24, 75, 202, 197, 86, 168, 222, 23, 248, 64, 170, 230, 40, 113, 172,
                    183, 137, 209, 202, 205, 76, 179, 132, 171, 33, 148, 196, 48, 231, 117, 58, 169, 19, 107, 142,
                    42, 118, 111, 112, 26, 213, 4, 244, 21, 194, 214, 13, 238, 79, 47, 116, 244, 211, 225, 8,
                    14, 140, 69, 138, 89, 145, 184, 141, 100, 191, 211, 230, 49, 209 >>],
      [key |-> << 74, 87, 218, 0, 111, 161, 234, 75, 190, 204, 56, 156, 6, 131, 222, 29, 202, 128, 56, 65,
                 167, 60, 124, 231, 119, 232, 249, 104, 185, 110, 185, 4 >>,
       iv |-> << 1, 1, 1, 1, 1, 1, 1, 1, 1, 1, 1, 1 >>,
       data |-> << 123, 34, 101, 110, 118, 34, 58, 91, 93, 125 >>,
       sealed |-> << 25, 197, 57, 38, 235, 180, 118, 120, 149, 39, 155, 197, 155, 90, 144, 216, 227, 9, 3, 166,
                    128, 214, 63, 205, 15, 79 >>],
      [key |-> << 74, 87, 218, 0, 111, 161, 234, 75, 190, 204, 56, 156, 6, 131, 222, 29, 202, 128, 56, 65,
                 167, 60, 124, 231, 119, 232, 249, 104, 185, 110, 185, 4 >>,
       iv |-> << 1, 1, 1, 1, 1, 1, 1, 1, 1, 1, 1, 1 >>,
       data |-> << 123, 34, 101, 110, 118, 34, 58, 91, 123, 34, 107, 101, 121, 34, 58, 34, 65, 34, 44, 34,
                  118, 97, 108, 117, 101, 34, 58, 34, 51, 34, 125, 93, 125 >>,
       sealed |-> << 25, 197, 57, 38, 235, 180, 118, 120, 179, 120, 185, 88, 48, 159, 29, 133, 129, 116, 87, 99,
                    229, 2, 162, 169, 238, 223, 85, 162, 87, 36, 102, 37, 97, 142, 177, 9, 135, 176, 97, 20,
                    109, 111, 223, 199, 13, 145, 187, 123, 252 >>],
      [key |-> << 74, 87, 218, 0, 111, 161, 234, 75, 190, 204, 56, 156, 6, 131, 222, 29, 202, 128, 56, 65,
                 167, 60, 124, 231, 119, 232, 249, 104, 185, 110, 185, 4 >>,
       iv |-> << 1, 1, 1, 1, 1, 1, 1, 1, 1, 1, 1, 1 >>,
       data |-> << 123, 34, 101, 110, 118, 34, 58, 91, 123, 34, 107, 101, 121, 34, 58, 34, 65, 34, 44, 34,
                  118, 97, 108, 117, 101, 34, 58, 34, 51, 34, 125, 44, 123, 34, 107, 101, 121, 34, 58, 34,
                  66, 34, 44, 34, 118, 97, 108, 117, 101, 34, 58, 34, 57, 92, 114, 34, 125, 93, 125 >>,
       sealed |-> << 25, 197, 57, 38, 235, 180, 118, 120, 179, 120, 185, 88, 48, 159, 29, 133, 129, 116, 87, 99,
                    229, 2, 162, 169, 238, 223, 85, 162, 87, 36, 102, 84, 103, 15, 39, 37, 81, 108, 116, 232,
                    127, 170, 31, 192, 122, 130, 147, 141, 98, 120, 5, 53, 251, 152, 41, 124, 80, 186, 200, 89,
                    82, 56, 221, 11, 197, 51, 244, 167, 198, 119, 227, 211, 86, 244, 191 >>],
      [key |-> << 74, 87, 218, 0, 111, 161, 234, 75, 190, 204, 56, 156, 6, 131, 222, 29, 202, 128, 56, 65,
                 167, 60, 124, 231, 119, 232, 249, 104, 185, 110, 185, 4 >>,
       iv |-> << 1, 1, 1, 1, 1, 1, 1, 1, 1, 1, 1, 1 >>,
       data |-> << 123, 34, 101, 110, 118, 34, 58, 91, 123, 34, 107, 101, 121, 34, 58, 34, 81, 34, 44, 34,
                  118, 97, 108, 117, 101, 34, 58, 34, 97, 92, 34, 92, 92, 195, 169, 92, 117, 48, 48, 49,
                  98, 226, 130, 172, 240, 159, 152, 128, 92, 117, 100, 56, 48, 48, 34, 125, 93, 125 >>,
       sealed |-> << 25, 197, 57, 38, 235, 180, 118, 120, 179, 120, 185, 88, 48, 159, 29, 133, 145, 116, 87, 99,
                    229, 2, 162, 169, 238, 223, 85, 162, 5, 90, 57, 36, 64, 238, 229, 28, 93, 126, 126, 251,
                    95, 106, 177, 78, 252, 124, 103, 120, 91, 47, 91, 47, 242, 244, 121, 35, 112, 154, 45, 155,
                    129, 57, 181, 204, 133, 92, 234, 50, 1, 169, 29, 191, 78, 176 >>],
      [key |-> << 74, 87, 218, 0, 111, 161, 234, 75, 190, 204, 56, 156, 6, 131, 222, 29, 202, 128, 56, 65,
                 167, 60, 124, 231, 119, 232, 249, 104, 185, 110, 185, 4 >>,
       iv |-> << 2, 2, 2, 2, 2, 2, 2, 2, 2, 2, 2, 2 >>,
       data |-> << 123, 34, 101, 110, 118, 34, 58, 91, 93, 125 >>,
       sealed |-> << 199, 94, 50, 155, 5, 210, 93, 239, 70, 111, 210, 85, 139, 152, 233, 105, 10, 115, 31, 180,
                    225, 147, 87, 144, 203, 108 >>],
      [key |-> << 74, 87, 218, 0, 111, 161, 234, 75, 190, 204, 56, 156, 6, 131, 222, 29, 202, 128, 56, 65,
                 167, 60, 124, 231, 119, 232, 249, 104, 185, 110, 185, 4 >>,
       iv |-> << 2, 2, 2, 2, 2, 2, 2, 2, 2, 2, 2, 2 >>,
       data |-> << 123, 34, 101, 110, 118, 34, 58, 91, 123, 34, 107, 101, 121, 34, 58, 34, 65, 34, 44, 34,
                  118, 97, 108, 117, 101, 34, 58, 34, 51, 34, 125, 93, 125 >>,
       sealed |-> << 199, 94, 50, 155, 5, 210, 93, 239, 96, 48, 0, 65, 209, 148, 44, 174, 48, 94, 30, 50,
                    30, 175, 206, 235, 61, 233, 48, 224, 194, 149, 6, 218, 222, 179, 129, 251, 199, 39, 154, 166,
                    67, 84, 138, 218, 43, 119, 209, 9, 84 >>],
      [key |-> << 74, 87, 218, 0, 111, 161, 234, 75, 190, 204, 56, 156, 6, 131, 222, 29, 202, 128, 56, 65,
                 167, 60, 124, 231, 119, 232, 249, 104, 185, 110, 185, 4 >>,
       iv |-> << 2, 2, 2, 2, 2, 2, 2, 2, 2, 2, 2, 2 >>,
       data |-> << 123, 34, 101, 110, 118, 34, 58, 91, 123, 34, 107, 101, 121, 34, 58, 34, 65, 34, 44, 34,
                  118, 97, 108, 117, 101, 34, 58, 34, 51, 34, 125, 44, 123, 34, 107, 101, 121, 34, 58, 34,
                  66, 34, 44, 34, 118, 97, 108, 117, 101, 34, 58, 34, 57, 92, 114, 34, 125, 93, 125 >>,
       sealed |-> << 199, 94, 50, 155, 5, 210, 93, 239, 96, 48, 0, 65, 209, 148, 44, 174, 48, 94, 30, 50,
                    30, 175, 206, 235, 61, 233, 48, 224, 194, 149, 6, 171, 216, 148, 76, 12, 64, 14, 108, 118,
                    140, 246, 195, 177, 163, 163, 197, 100, 74, 14, 122, 44, 62, 177, 250, 180, 164, 136, 44, 176,
                    14, 229, 26, 29, 128, 189, 222, 197, 240, 43, 113, 124, 129, 200, 226 >>],
      [key |-> << 74, 87, 218, 0, 111, 161, 234, 75, 190, 204, 56, 156, 6, 131, 222, 29, 202, 128, 56, 65,
                 167, 60, 124, 231, 119, 232, 249, 104, 185, 110, 185, 4 >>,
       iv |-> << 2, 2, 2, 2, 2, 2, 2, 2, 2, 2, 2, 2 >>,
       data |-> << 123, 34, 101, 110, 118, 34, 58, 91, 123, 34, 107, 101, 121, 34, 58, 34, 81, 34, 44, 34,
                  118, 97, 108, 117, 101, 34, 58, 34, 97, 92, 34, 92, 92, 195, 169, 92, 117, 48, 48, 49,
                  98, 226, 130, 172, 240, 159, 152, 128, 92, 117, 100, 56, 48, 48, 34, 125, 93, 125 >>,
       sealed |-> << 199, 94, 50, 155, 5, 210, 93, 239, 96, 48, 0, 65, 209, 148, 44, 174, 32, 94, 30, 50,
                    30, 175, 206, 235, 61, 233, 48, 224, 144, 235, 89, 219, 255, 117, 142, 53, 76, 28, 102, 101,
                    172, 54, 109, 63, 37, 93, 49, 145, 115, 89, 36, 54, 55, 221, 170, 235, 132, 168, 247, 123,
                    70, 239, 145, 108, 123, 166, 105, 79, 67, 88, 205, 255, 124, 106 >>],
      [key |-> << 15, 34, 138, 14, 29, 35, 175, 84, 71, 140, 188, 218, 44, 4, 219, 52, 136, 248, 23, 152,
                 238, 21, 63, 189, 105, 205, 192, 145, 91, 185, 176, 105 >>,
       iv |-> << 1, 1, 1, 1, 1, 1, 1, 1, 1, 1, 1, 1 >>,
       data |-> << 123, 34, 101, 110, 118, 34, 58, 91, 93, 125 >>,
       sealed |-> << 58, 27, 133, 107, 142, 181, 1, 205, 5, 96, 58, 252, 91, 29, 87, 13, 134, 38, 142, 131,
                    143, 83, 47, 223, 23, 150 >>],
      [key |-> << 15, 34, 138, 14, 29, 35, 175, 84, 71, 140, 188, 218, 44, 4, 219, 52, 136, 248, 23, 152,
                 238, 21, 63, 189, 105, 205, 192, 145, 91, 185, 176, 105 >>,
       iv |-> << 1, 1, 1, 1, 1, 1, 1, 1, 1, 1, 1, 1 >>,
       data |-> << 123, 34, 101, 110, 118, 34, 58, 91, 123, 34, 107, 101, 121, 34, 58, 34, 65, 34, 44, 34,
                  118, 97, 108, 117, 101, 34, 58, 34, 51, 34, 125, 93, 125 >>,
       sealed |-> << 58, 27, 133, 107, 142, 181, 1, 205, 35, 63, 132, 33, 168, 147, 166, 49, 145, 80, 228, 201,
                    225, 224, 75, 219, 40, 160, 115, 175, 240, 47, 102, 105, 34, 150, 45, 178, 23, 41, 161, 61,
                    0, 67, 198, 207, 158, 42, 41, 17, 187 >>],
      [key |-> << 15, 34, 138, 14, 29, 35, 175, 84, 71, 140, 188, 218, 44, 4, 219, 52, 136, 248, 23, 152,
                 238, 21, 63, 189, 105, 205, 192, 145, 91, 185, 176, 105 >>,
       iv |-> << 1, 1, 1, 1, 1, 1, 1, 1, 1, 1, 1, 1 >>,
       data |-> << 123, 34, 101, 110, 118, 34, 58, 91, 123, 34, 107, 101, 121, 34, 58, 34, 65, 34, 44, 34,
                  118, 97, 108, 117, 101, 34, 58, 34, 51, 34, 125, 44, 123, 34, 107, 101, 121, 34, 58, 34,
                  66, 34, 44, 34, 118, 97, 108, 117, 101, 34, 58, 34, 57, 92, 114, 34, 125, 93, 125 >>,
       sealed |-> << 58, 27, 133, 107, 142, 181, 1, 205, 35, 63, 132, 33, 168, 147, 166, 49, 145, 80, 228, 201,
                    225, 224, 75, 219, 40, 160, 115, 175, 240, 47, 102, 24, 36, 36, 234, 126, 44, 32, 147, 196,
                    249, 83, 249, 76, 249, 179, 0, 158, 51, 23, 57, 60, 153, 39, 102, 151, 190, 196, 229, 130,
                    237, 100, 50, 155, 231, 94, 81, 102, 84, 130, 56, 146, 228, 1, 240 >>],
      [key |-> << 15, 34, 138, 14, 29, 35, 175, 84, 71, 140, 188, 218, 44, 4, 219, 52, 136, 248, 23, 152,
                 238, 21, 63, 189, 105, 205, 192, 145, 91, 185, 176, 105 >>,
       iv |-> << 1, 1, 1, 1, 1, 1, 1, 1, 1, 1, 1, 1 >>,
       data |-> << 123, 34, 101, 110, 118, 34, 58, 91, 123, 34, 107, 101, 121, 34, 58, 34, 81, 34, 44, 34,
                  118, 97, 108, 117, 101, 34, 58, 34, 97, 92, 34, 92, 92, 195, 169, 92, 117, 48, 48, 49,
                  98, 226, 130, 172, 240, 159, 152, 128, 92, 117, 100, 56, 48, 48, 34, 125, 93, 125 >>,
       sealed |-> << 58, 27, 133, 107, 142, 181, 1, 205, 35, 63, 132, 33, 168, 147, 166, 49, 129, 80, 228, 201,
                    225, 224, 75, 219, 40, 160, 115, 175, 162, 81, 57, 104, 3, 197, 40, 71, 32, 50, 153, 215,
                    217, 147, 87, 194, 127, 77, 244, 107, 10, 64, 103, 38, 144, 75, 54, 200, 158, 228, 99, 110,
                    34, 152, 169, 47, 250, 237, 221, 185, 227, 98, 22, 39, 7, 3 >>],
      [key |-> << 15, 34, 138, 14, 29, 35, 175, 84, 71, 140, 188, 218, 44, 4, 219, 52, 136, 248, 23, 152,
                 238, 21, 63, 189, 105, 205, 192, 145, 91, 185, 176, 105 >>,
       iv |-> << 2, 2, 2, 2, 2, 2, 2, 2, 2, 2, 2, 2 >>,
       data |-> << 123, 34, 101, 110, 118, 34, 58, 91, 93, 125 >>,
       sealed |-> << 226, 161, 29, 60, 234, 48, 198, 212, 136, 254, 39, 78, 231, 140, 115, 54, 50, 145, 61, 148,
                    162, 42, 199, 89, 106, 231 >>],
      [key |-> << 15, 34, 138, 14, 29, 35, 175, 84, 71, 140, 188, 218, 44, 4, 219, 52, 136, 248, 23, 152,
                 238, 21, 63, 189, 105, 205, 192, 145, 91, 185, 176, 105 >>,
       iv |-> << 2, 2, 2, 2, 2, 2, 2, 2, 2, 2, 2, 2 >>,
       data |-> << 123, 34, 101, 110, 118, 34, 58, 91, 123, 34, 107, 101, 121, 34, 58, 34, 65, 34, 44, 34,
                  118, 97, 108, 117, 101, 34, 58, 34, 51, 34, 125, 93, 125 >>,
       sealed |-> << 226, 161, 29, 60, 234, 48, 198, 212, 174, 161, 117, 244, 23, 249, 136, 132, 249, 172, 216, 46,
                    215, 118, 161, 124, 195, 38, 7, 217, 78, 66, 26, 159, 10, 237, 91, 53, 133, 212, 130, 212,
                    140, 150, 5, 148, 188, 215, 246, 187, 99 >>],
      [key |-> << 15, 34, 138, 14, 29, 35, 175, 84, 71, 140, 188, 218, 44, 4, 219, 52, 136, 248, 23, 152,
                 238, 21, 63, 189, 105, 205, 192, 145, 91, 185, 176, 105 >>,
       iv |-> << 2, 2, 2, 2, 2, 2, 2, 2, 2, 2, 2, 2 >>,
       data |-> << 123, 34, 101, 110, 118, 34, 58, 91, 123, 34, 107, 101, 121, 34, 58, 34, 65, 34, 44, 34,
                  118, 97, 108, 117, 101, 34, 58, 34, 51, 34, 125, 44, 123, 34, 107, 101, 121, 34, 58, 34,
                  66, 34, 44, 34, 118, 97, 108, 117, 101, 34, 58, 34, 57, 92, 114, 34, 125, 93, 125 >>,
       sealed |-> << 226, 161, 29, 60, 234, 48, 198, 212, 174, 161, 117, 244, 23, 249, 136, 132, 249, 172, 216, 46,
                    215, 118, 161, 124, 195, 38, 7, 217, 78, 66, 26, 238, 12, 29, 20, 111, 93, 158, 203, 251,
                    127, 157, 180, 139, 128, 181, 253, 253, 167, 149, 199, 123, 50, 159, 5, 61, 222, 212, 15, 213,
                    64, 104, 98, 170, 146, 163, 12, 223, 181, 229, 52, 215, 114, 42, 251 >>],
      [key |-> << 15, 34, 138, 14, 29, 35, 175, 84, 71, 140, 188, 218, 44, 4, 219, 52, 136, 248, 23, 152,
                 238, 21, 63, 189, 105, 205, 192, 145, 91, 185, 176, 105 >>,
       iv |-> << 2, 2, 2, 2, 2, 2, 2, 2, 2, 2, 2, 2 >>,
       data |-> << 123, 34, 101, 110, 118, 34, 58, 91, 123, 34, 107, 101, 121, 34, 58, 34, 81, 34, 44, 34,
                  118, 97, 108, 117, 101, 34, 58, 34, 97, 92, 34, 92, 92, 195, 169, 92, 117, 48, 48, 49,
                  98, 226, 130, 172, 240, 159, 152, 128, 92, 117, 100, 56, 48, 48, 34, 125, 93, 125 >>,
       sealed |-> << 226, 161, 29, 60, 234, 48, 198, 212, 174, 161, 117, 244, 23, 249, 136, 132, 233, 172, 216, 46,
                    215, 118, 161, 124, 195, 38, 7, 217, 28, 60, 69, 158, 43, 252, 214, 86, 81, 140, 193, 232,
                    95, 93, 26, 5, 6, 75, 9, 8, 158, 194, 153, 97, 59, 243, 85, 98, 254, 244, 22, 29,
                    4, 105, 231, 223, 58, 174, 211, 65, 94, 152, 28, 180, 169, 115 >>],
      [key |-> << 157, 47, 214, 1, 108, 131, 14, 177, 229, 92, 117, 119, 146, 227, 160, 159, 209, 236, 228, 89,
                 194, 32, 46, 94, 215, 33, 153, 54, 205, 238, 109, 38 >>,
       iv |-> << 1, 1, 1, 1, 1, 1, 1, 1, 1, 1, 1, 1 >>,
       data |-> << 123, 34, 101, 110, 118, 34, 58, 91, 93, 125 >>,
       sealed |-> << 167, 57, 37, 86, 115, 90, 208, 255, 189, 120, 183, 207, 64, 150, 251, 118, 136, 136, 93, 53,
                    229, 194, 120, 128, 15, 183 >>],
      [key |-> << 157, 47, 214, 1, 108, 131, 14, 177, 229, 92, 117, 119, 146, 227, 160, 159, 209, 236, 228, 89,
                 194, 32, 46, 94, 215, 33, 153, 54, 205, 238, 109, 38 >>,
       iv |-> << 1, 1, 1, 1, 1, 1, 1, 1, 1, 1, 1, 1 >>,
       data |-> << 123, 34, 101, 110, 118, 34, 58, 91, 123, 34, 107, 101, 121, 34, 58, 34, 65, 34, 44, 34,
                  118, 97, 108, 117, 101, 34, 58, 34, 51, 34, 125, 93, 125 >>,
       sealed |-> << 167, 57, 37, 86, 115, 90, 208, 255, 155, 39, 195, 53, 177, 29, 181, 85, 152, 97, 188, 24,
                    18, 204, 163, 91, 209, 71, 255, 186, 73, 242, 18, 214, 157, 228, 75, 194, 236, 177, 34, 243,
                    138, 173, 9, 205, 71, 255, 48, 194, 198 >>],
      [key |-> << 157, 47, 214, 1, 108, 131, 14, 177, 229, 92, 117, 119, 146, 227, 160, 159, 209, 236, 228, 89,
                 194, 32, 46, 94, 215, 33, 153, 54, 205, 238, 109, 38 >>,
       iv |-> << 1, 1, 1, 1, 1, 1, 1, 1, 1, 1, 1, 1 >>,
       data |-> << 123, 34, 101, 110, 118, 34, 58, 91, 123, 34, 107, 101, 121, 34, 58, 34, 65, 34, 44, 34,
                  118, 97, 108, 117, 101, 34, 58, 34, 51, 34, 125, 44, 123, 34, 107, 101, 121, 34, 58, 34,
                  66, 34, 44, 34, 118, 97, 108, 117, 101, 34, 58, 34, 57, 92, 114, 34, 125, 93, 125 >>,
       sealed |-> << 167, 57, 37, 86, 115, 90, 208, 255, 155, 39, 195, 53, 177, 29, 181, 85, 152, 97, 188, 24,
                    18, 204, 163, 91, 209, 71, 255, 186, 73, 242, 18, 167, 155, 3, 106, 71, 232, 170, 43, 255,
                    66, 195, 62, 117, 250, 177, 243, 157, 38, 123, 5, 77, 104, 219, 151, 104, 14, 198, 76, 165,
                    248, 222, 3, 254, 154, 201, 242, 73, 163, 56, 69, 3, 121, 203, 3 >>],
      [key |-> << 157, 47, 214, 1, 108, 131, 14, 177, 229, 92, 117, 119, 146, 227, 160, 159, 209, 236, 228, 89,
                 194, 32, 46, 94, 215, 33, 153, 54, 205, 238, 109, 38 >>,
       iv |-> << 1, 1, 1, 1, 1, 1, 1, 1, 1, 1, 1, 1 >>,
       data |-> << 123, 34, 101, 110, 118, 34, 58, 91, 123, 34, 107, 101, 121, 34, 58, 34, 81, 34, 44, 34,
                  118, 97, 108, 117, 101, 34, 58, 34, 97, 92, 34, 92, 92, 195, 169, 92, 117, 48, 48, 49,
                  98, 226, 130, 172, 240, 159, 152, 128, 92, 117, 100, 56, 48, 48, 34, 125, 93, 125 >>,
       sealed |-> << 167, 57, 37, 86, 115, 90, 208, 255, 155, 39, 195, 53, 177, 29, 181, 85, 136, 97, 188, 24,
                    18, 204, 163, 91, 209, 71, 255, 186, 27, 140, 77, 215, 188, 226, 168, 126, 228, 184, 33, 236,
                    98, 3, 144, 251, 124, 79, 7, 104, 31, 44, 91, 87, 97, 183, 199, 55, 46, 230, 137, 154,
                    255, 154, 32, 243, 52, 22, 53, 201, 218, 254, 17, 225, 32, 37 >>],
      [key |-> << 157, 47, 214, 1, 108, 131, 14, 177, 229, 92, 117, 119, 146, 227, 160, 159, 209, 236, 228, 89,
                 194, 32, 46, 94, 215, 33, 153, 54, 205, 238, 109, 38 >>,
       iv |-> << 2, 2, 2, 2, 2, 2, 2, 2, 2, 2, 2, 2 >>,
       data |-> << 123, 34, 101, 110, 118, 34, 58, 91, 93, 125 >>,
       sealed |-> << 198, 54, 156, 235, 141, 139, 203, 129, 73, 10, 77, 72, 138, 3, 22, 34, 145, 221, 201, 126,
                    221, 207, 128, 250, 103, 44 >>],
      [key |-> << 157, 47, 214, 1, 108, 131, 14, 177, 229, 92, 117, 119, 146, 227, 160, 159, 209, 236, 228, 89,
                 194, 32, 46, 94, 215, 33, 153, 54, 205, 238, 109, 38 >>,
       iv |-> << 2, 2, 2, 2, 2, 2, 2, 2, 2, 2, 2, 2 >>,
       data |-> << 123, 34, 101, 110, 118, 34, 58, 91, 123, 34, 107, 101, 121, 34, 58, 34, 65, 34, 44, 34,
                  118, 97, 108, 117, 101, 34, 58, 34, 51, 34, 125, 93, 125 >>,
       sealed |-> << 198, 54, 156, 235, 141, 139, 203, 129, 111, 85, 181, 221, 69, 163, 243, 195, 77, 44, 88, 119,
                    80, 219, 146, 235, 196, 38, 173, 125, 116, 160, 230, 183, 227, 182, 103, 183, 34, 48, 125, 14,
                    75, 111, 162, 212, 11, 118, 192, 238, 131 >>],
      [key |-> << 157, 47, 214, 1, 108, 131, 14, 177, 229, 92, 117, 119, 146, 227, 160, 159, 209, 236, 228, 89,
                 194, 32, 46, 94, 215, 33, 153, 54, 205, 238, 109, 38 >>,
       iv |-> << 2, 2, 2, 2, 2, 2, 2, 2, 2, 2, 2, 2 >>,
       data |-> << 123, 34, 101, 110, 118, 34, 58, 91, 123, 34, 107, 101, 121, 34, 58, 34, 65, 34, 44, 34,
                  118, 97, 108, 117, 101, 34, 58, 34, 51, 34, 125, 44, 123, 34, 107, 101, 121, 34, 58, 34,
                  66, 34, 44, 34, 118, 97, 108, 117, 101, 34, 58, 34, 57, 92, 114, 34, 125, 93, 125 >>,
       sealed |-> << 198, 54, 156, 235, 141, 139, 203, 129, 111, 85, 181, 221, 69, 163, 243, 195, 77, 44, 88, 119,
                    80, 219, 146, 235, 196, 38, 173, 125, 116, 160, 230, 198, 229, 73, 78, 57, 51, 22, 85, 164,
                    160, 235, 240, 110, 54, 128, 7, 159, 18, 134, 43, 181, 65, 178, 188, 161, 232, 175, 87, 153,
                    138, 26, 113, 212, 3, 253, 176, 197, 207, 236, 1, 191, 219, 147, 24 >>],
      [key |-> << 157, 47, 214, 1, 108, 131, 14, 177, 229, 92, 117, 119, 146, 227, 160, 159, 209, 236, 228, 89,
                 194, 32, 46, 94, 215, 33, 153, 54, 205, 238, 109, 38 >>,
       iv |-> << 2, 2, 2, 2, 2, 2, 2, 2, 2, 2, 2, 2 >>,
       data |-> << 123, 34, 101, 110, 118, 34, 58, 91, 123, 34, 107, 101, 121, 34, 58, 34, 81, 34, 44, 34,
                  118, 97, 108, 117, 101, 34, 58, 34, 97, 92, 34, 92, 92, 195, 169, 92, 117, 48, 48, 49,
                  98, 226, 130, 172, 240, 159, 152, 128, 92, 117, 100, 56, 48, 48, 34, 125, 93, 125 >>,
       sealed |-> << 198, 54, 156, 235, 141, 139, 203, 129, 111, 85, 181, 221, 69, 163, 243, 195, 93, 44, 88, 119,
                    80, 219, 146, 235, 196, 38, 173, 125, 38, 222, 185, 182, 194, 168, 140, 0, 63, 4, 95, 183,
                    128, 43, 94, 224, 176, 126, 243, 106, 43, 209, 117, 175, 72, 222, 236, 254, 200, 143, 234, 147,
                    186, 244, 108, 77, 20, 75, 154, 213, 53, 130, 139, 211, 6, 105 >>],
      [key |-> << 152, 62, 156, 248, 1, 132, 63, 113, 188, 23, 33, 56, 161, 34, 205, 222, 89, 151, 185, 66,
                 88, 195, 221, 254, 52, 14, 76, 8, 106, 101, 10, 60 >>,
       iv |-> << 1, 1, 1, 1, 1, 1, 1, 1, 1, 1, 1, 1 >>,
       data |-> << 123, 34, 101, 110, 118, 34, 58, 91, 93, 125 >>,
       sealed |-> << 158, 212, 217, 97, 30, 138, 40, 214, 232, 84, 240, 59, 1, 57, 250, 165, 212, 212, 237, 56,
                    64, 44, 121, 168, 33, 231 >>],
      [key |-> << 152, 62, 156, 248, 1, 132, 63, 113, 188, 23, 33, 56, 161, 34, 205, 222, 89, 151, 185, 66,
                 88, 195, 221, 254, 52, 14, 76, 8, 106, 101, 10, 60 >>,
       iv |-> << 1, 1, 1, 1, 1, 1, 1, 1, 1, 1, 1, 1 >>,
       data |-> << 123, 34, 101, 110, 118, 34, 58, 91, 123, 34, 107, 101, 121, 34, 58, 34, 65, 34, 44, 34,
                  118, 97, 108, 117, 101, 34, 58, 34, 51, 34, 125, 93, 125 >>,
       sealed |-> << 158, 212, 217, 97, 30, 138, 40, 214, 206, 11, 65, 106, 139, 205, 41, 239, 173, 250, 100, 124,
                    116, 255, 99, 247, 224, 80, 213, 39, 220, 194, 185, 156, 151, 202, 71, 47, 147, 181, 212, 10,
                    95, 135, 33, 78, 231, 195, 124, 62, 34 >>],
      [key |-> << 152, 62, 156, 248, 1, 132, 63, 113, 188, 23, 33, 56, 161, 34, 205, 222, 89, 151, 185, 66,
                 88, 195, 221, 254, 52, 14, 76, 8, 106, 101, 10, 60 >>,
       iv |-> << 1, 1, 1, 1, 1, 1, 1, 1, 1, 1, 1, 1 >>,
       data |-> << 123, 34, 101, 110, 118, 34, 58, 91, 123, 34, 107, 101, 121, 34, 58, 34, 65, 34, 44, 34,
                  118, 97, 108, 117, 101, 34, 58, 34, 51, 34, 125, 44, 123, 34, 107, 101, 121, 34, 58, 34,
                  66, 34, 44, 34, 118, 97, 108, 117, 101, 34, 58, 34, 57, 92, 114, 34, 125, 93, 125 >>,
       sealed |-> << 158, 212, 217, 97, 30, 138, 40, 214, 206, 11, 65, 106, 139, 205, 41, 239, 173, 250, 100, 124,
                    116, 255, 99, 247, 224, 80, 213, 39, 220, 194, 185, 237, 145, 92, 164, 83, 48, 116, 209, 228,
                    110, 181, 34, 167, 119, 204, 15, 183, 71, 249, 94, 204, 216, 64, 173, 223, 254, 0, 212, 72,
                    60, 149, 244, 255, 199, 26, 96, 71, 37, 248, 50, 99, 47, 88, 165 >>],
      [key |-> << 152, 62, 156, 248, 1, 132, 63, 113, 188, 23, 33, 56, 161, 34, 205, 222, 89, 151, 185, 66,
                 88, 195, 221, 254, 52, 14, 76, 8, 106, 101, 10, 60 >>,
       iv |-> << 1, 1, 1, 1, 1, 1, 1, 1, 1, 1, 1, 1 >>,
       data |-> << 123, 34, 101, 110, 118, 34, 58, 91, 123, 34, 107, 101, 121, 34, 58, 34, 81, 34, 44, 34,
                  118, 97, 108, 117, 101, 34, 58, 34, 97, 92, 34, 92, 92, 195, 169, 92, 117, 48, 48, 49,
                  98, 226, 130, 172, 240, 159, 152, 128, 92, 117, 100, 56, 48, 48, 34, 125, 93, 125 >>,
       sealed |-> << 158, 212, 217, 97, 30, 138, 40, 214, 206, 11, 65, 106, 139, 205, 41, 239, 189, 250, 100, 124,
                    116, 255, 99, 247, 224, 80, 213, 39, 142, 188, 230, 157, 182, 189, 102, 106, 60, 102, 219, 247,
                    78, 117, 140, 41, 241, 50, 251, 66, 126, 174, 0, 214, 209, 44, 253, 128, 222, 32, 63, 83,
                    192, 113, 138, 127, 239, 30, 123, 83, 96, 6, 244, 58, 76, 112 >>],
      [key |-> << 152, 62, 156, 248, 1, 132, 63, 113, 188, 23, 33, 56, 161, 34, 205, 222, 89, 151, 185, 66,
                 88, 195, 221, 254, 52, 14, 76, 8, 106, 101, 10, 60 >>,
       iv |-> << 2, 2, 2, 2, 2, 2, 2, 2, 2, 2, 2, 2 >>,
       data |-> << 123, 34, 101, 110, 118, 34, 58, 91, 93, 125 >>,
       sealed |-> << 12, 176, 15, 115, 144, 5, 242, 92, 165, 173, 157, 29, 140, 186, 236, 190, 221, 184, 38, 188,
                    212, 255, 185, 134, 228, 137 >>],
      [key |-> << 152, 62, 156, 248, 1, 132, 63, 113, 188, 23, 33, 56, 161, 34, 205, 222, 89, 151, 185, 66,
                 88, 195, 221, 254, 52, 14, 76, 8, 106, 101, 10, 60 >>,
       iv |-> << 2, 2, 2, 2, 2, 2, 2, 2, 2, 2, 2, 2 >>,
       data |-> << 123, 34, 101, 110, 118, 34, 58, 91, 123, 34, 107, 101, 121, 34, 58, 34, 65, 34, 44, 34,
                  118, 97, 108, 117, 101, 34, 58, 34, 51, 34, 125, 93, 125 >>,
       sealed |-> << 12, 176, 15, 115, 144, 5, 242, 92, 131, 242, 73, 135, 164, 132, 254, 146, 55, 110, 217, 5,
                    160, 185, 237, 124, 86, 60, 222, 160, 232, 149, 129, 149, 253, 43, 48, 248, 40, 48, 91, 175,
                    21, 252, 211, 21, 169, 238, 175, 97, 171 >>],
      [key |-> << 152, 62, 156, 248, 1, 132, 63, 113, 188, 23, 33, 56, 161, 34, 205, 222, 89, 151, 185, 66,
                 88, 195, 221, 254, 52, 14, 76, 8, 106, 101, 10, 60 >>,
       iv |-> << 2, 2, 2, 2, 2, 2, 2, 2, 2, 2, 2, 2 >>,
       data |-> << 123, 34, 101, 110, 118, 34, 58, 91, 123, 34, 107, 101, 121, 34, 58, 34, 65, 34, 44, 34,
                  118, 97, 108, 117, 101, 34, 58, 34, 51, 34, 125, 44, 123, 34, 107, 101, 121, 34, 58, 34,
                  66, 34, 44, 34, 118, 97, 108, 117, 101, 34, 58, 34, 57, 92, 114, 34, 125, 93, 125 >>,
       sealed |-> << 12, 176, 15, 115, 144, 5, 242, 92, 131, 242, 73, 135, 164, 132, 254, 146, 55, 110, 217, 5,
                    160, 185, 237, 124, 86, 60, 222, 160, 232, 149, 129, 228, 251, 8, 49, 143, 156, 204, 9, 9,
                    185, 90, 80, 141, 247, 200, 240, 125, 44, 90, 172, 222, 153, 161, 62, 72, 210, 253, 210, 54,
                    2, 36, 150, 194, 138, 47, 12, 212, 64, 170, 16, 235, 228, 171, 8 >>],
      [key |-> << 152, 62, 156, 248, 1, 132, 63, 113, 188, 23, 33, 56, 161, 34, 205, 222, 89, 151, 185, 66,
                 88, 195, 221, 254, 52, 14, 76, 8, 106, 101, 10, 60 >>,
       iv |-> << 2, 2, 2, 2, 2, 2, 2, 2, 2, 2, 2, 2 >>,
       data |-> << 123, 34, 101, 110, 118, 34, 58, 91, 123, 34, 107, 101, 121, 34, 58, 34, 81, 34, 44, 34,
                  118, 97, 108, 117, 101, 34, 58, 34, 97, 92, 34, 92, 92, 195, 169, 92, 117, 48, 48, 49,
                  98, 226, 130, 172, 240, 159, 152, 128, 92, 117, 100, 56, 48, 48, 34, 125, 93, 125 >>,
       sealed |-> << 12, 176, 15, 115, 144, 5, 242, 92, 131, 242, 73, 135, 164, 132, 254, 146, 39, 110, 217, 5,
                    160, 185, 237, 124, 86, 60, 222, 160, 186, 235, 222, 148, 220, 233, 243, 182, 144, 222, 3, 26,
                    153, 154, 254, 3, 113, 54, 4, 136, 21, 13, 242, 196, 144, 205, 110, 23, 242, 221, 68, 17,
                    228, 41, 23, 203, 79, 222, 227, 91, 148, 33, 75, 18, 175, 123 >>],
      [key |-> << 191, 196, 195, 154, 26, 64, 8, 215, 140, 101, 1, 189, 127, 159, 191, 25, 239, 228, 109, 60,
                 59, 192, 253, 230, 129, 215, 143, 205, 198, 166, 206, 59 >>,
       iv |-> << 1, 1, 1, 1, 1, 1, 1, 1, 1, 1, 1, 1 >>,
       data |-> << 123, 34, 101, 110, 118, 34, 58, 91, 93, 125 >>,
       sealed |-> << 86, 119, 170, 223, 203, 161, 134, 196, 73, 253, 198, 45, 226, 233, 24, 153, 57, 110, 43, 243,
                    171, 59, 235, 219, 236, 139 >>],
      [key |-> << 191, 196, 195, 154, 26, 64, 8, 215, 140, 101, 1, 189, 127, 159, 191, 25, 239, 228, 109, 60,
                 59, 192, 253, 230, 129, 215, 143, 205, 198, 166, 206, 59 >>,
       iv |-> << 1, 1, 1, 1, 1, 1, 1, 1, 1, 1, 1, 1 >>,
       data |-> << 123, 34, 101, 110, 118, 34, 58, 91, 123, 34, 107, 101, 121, 34, 58, 34, 65, 34, 44, 34,
                  118, 97, 108, 117, 101, 34, 58, 34, 51, 34, 125, 93, 125 >>,
       sealed |-> << 86, 119, 170, 223, 203, 161, 134, 196, 111, 162, 19, 133, 91, 51, 232, 174, 166, 190, 78, 111,
                    207, 68, 82, 71, 109, 134, 190, 251, 50, 27, 44, 155, 195, 189, 110, 161, 178, 32, 31, 172,
                    29, 93, 91, 145, 130, 251, 123, 193, 230 >>],
      [key |-> << 191, 196, 195, 154, 26, 64, 8, 215, 140, 101, 1, 189, 127, 159, 191, 25, 239, 228, 109, 60,
                 59, 192, 253, 230, 129, 215, 143, 205, 198, 166, 206, 59 >>,
       iv |-> << 1, 1, 1, 1, 1, 1, 1, 1, 1, 1, 1, 1 >>,
       data |-> << 123, 34, 101, 110, 118, 34, 58, 91, 123, 34, 107, 101, 121, 34, 58, 34, 65, 34, 44, 34,
                  118, 97, 108, 117, 101, 34, 58, 34, 51, 34, 125, 44, 123, 34, 107, 101, 121, 34, 58, 34,
                  66, 34, 44, 34, 118, 97, 108, 117, 101, 34, 58, 34, 57, 92, 114, 34, 125, 93, 125 >>,
       sealed |-> << 86, 119, 170, 223, 203, 161, 134, 196, 111, 162, 19, 133, 91, 51, 232, 174, 166, 190, 78, 111,
                    207, 68, 82, 71, 109, 134, 190, 251, 50, 27, 44, 234, 197, 230, 54, 235, 22, 116, 245, 30,
                    98, 217, 76, 72, 147, 169, 97, 93, 32, 112, 141, 217, 104, 12, 32, 9, 244, 31, 58, 63,
                    104, 209, 171, 127, 114, 153, 59, 163, 122, 75, 108, 188, 160, 183, 69 >>],
      [key |-> << 191, 196, 195, 154, 26, 64, 8, 215, 140, 101, 1, 189, 127, 159, 191, 25, 239, 228, 109, 60,
                 59, 192, 253, 230, 129, 215, 143, 205, 198, 166, 206, 59 >>,
       iv |-> << 1, 1, 1, 1, 1, 1, 1, 1, 1, 1, 1, 1 >>,
       data |-> << 123, 34, 101, 110, 118, 34, 58, 91, 123, 34, 107, 101, 121, 34, 58, 34, 81, 34, 44, 34,
                  118, 97, 108, 117, 101, 34, 58, 34, 97, 92, 34, 92, 92, 195, 169, 92, 117, 48, 48, 49,
                  98, 226, 130, 172, 240, 159, 152, 128, 92, 117, 100, 56, 48, 48, 34, 125, 93, 125 >>,
       sealed |-> << 86, 119, 170, 223, 203, 161, 134, 196, 111, 162, 19, 133, 91, 51, 232, 174, 182, 190, 78, 111,
                    207, 68, 82, 71, 109, 134, 190, 251, 96, 101, 115, 154, 226, 7, 244, 210, 26, 102, 255, 13,
                    66, 25, 226, 198, 21, 87, 149, 168, 25, 39, 211, 195, 97, 96, 112, 86, 212, 63, 247, 224,
                    248, 29, 168, 135, 124, 35, 114, 38, 250, 54, 243, 88, 211, 33 >>],
      [key |-> << 191, 196, 195, 154, 26, 64, 8, 215, 140, 101, 1, 189, 127, 159, 191, 25, 239, 228, 109, 60,
                 59, 192, 253, 230, 129, 215, 143, 205, 198, 166, 206, 59 >>,
       iv |-> << 2, 2, 2, 2, 2, 2, 2, 2, 2, 2, 2, 2 >>,
       data |-> << 123, 34, 101, 110, 118, 34, 58, 91, 93, 125 >>,
       sealed |-> << 198, 197, 252, 219, 227, 220, 245, 41, 158, 26, 236, 146, 197, 209, 243, 58, 48, 42, 209, 254,
                    17, 156, 215, 189, 194, 184 >>],
      [key |-> << 191, 196, 195, 154, 26, 64, 8, 215, 140, 101, 1, 189, 127, 159, 191, 25, 239, 228, 109, 60,
                 59, 192, 253, 230, 129, 215, 143, 205, 198, 166, 206, 59 >>,
       iv |-> << 2, 2, 2, 2, 2, 2, 2, 2, 2, 2, 2, 2 >>,
       data |-> << 123, 34, 101, 110, 118, 34, 58, 91, 123, 34, 107, 101, 121, 34, 58, 34, 65, 34, 44, 34,
                  118, 97, 108, 117, 101, 34, 58, 34, 51, 34, 125, 93, 125 >>,
       sealed |-> << 198, 197, 252, 219, 227, 220, 245, 41, 184, 69, 153, 80, 163, 51, 127, 145, 197, 130, 51, 81,
                    211, 210, 8, 43, 242, 203, 87, 148, 163, 161, 114, 230, 114, 220, 1, 16, 14, 111, 202, 193,
                    84, 86, 119, 125, 14, 122, 248, 155, 56 >>],
      [key |-> << 191, 196, 195, 154, 26, 64, 8, 215, 140, 101, 1, 189, 127, 159, 191, 25, 239, 228, 109, 60,
                 59, 192, 253, 230, 129, 215, 143, 205, 198, 166, 206, 59 >>,
       iv |-> << 2, 2, 2, 2, 2, 2, 2, 2, 2, 2, 2, 2 >>,
       data |-> << 123, 34, 101, 110, 118, 34, 58, 91, 123, 34, 107, 101, 121, 34, 58, 34, 65, 34, 44, 34,
                  118, 97, 108, 117, 101, 34, 58, 34, 51, 34, 125, 44, 123, 34, 107, 101, 121, 34, 58, 34,
                  66, 34, 44, 34, 118, 97, 108, 117, 101, 34, 58, 34, 57, 92, 114, 34, 125, 93, 125 >>,
       sealed |-> << 198, 197, 252, 219, 227, 220, 245, 41, 184, 69, 153, 80, 163, 51, 127, 145, 197, 130, 51, 81,
                    211, 210, 8, 43, 242, 203, 87, 148, 163, 161, 114, 151, 116, 59, 85, 243, 150, 80, 30, 213,
                    8, 187, 208, 197, 34, 42, 12, 200, 190, 253, 80, 35, 195, 137, 149, 222, 106, 44, 141, 206,
                    46, 185, 186, 144, 81, 197, 36, 108, 124, 232, 63, 237, 252, 203, 15 >>],
      [key |-> << 191, 196, 195, 154, 26, 64, 8, 215, 140, 101, 1, 189, 127, 159, 191, 25, 239, 228, 109, 60,
                 59, 192, 253, 230, 129, 215, 143, 205, 198, 166, 206, 59 >>,
       iv |-> << 2, 2, 2, 2, 2, 2, 2, 2, 2, 2, 2, 2 >>,
       data |-> << 123, 34, 101, 110, 118, 34, 58, 91, 123, 34, 107, 101, 121, 34, 58, 34, 81, 34, 44, 34,
                  118, 97, 108, 117, 101, 34, 58, 34, 97, 92, 34, 92, 92, 195, 169, 92, 117, 48, 48, 49,
                  98, 226, 130, 172, 240, 159, 152, 128, 92, 117, 100, 56, 48, 48, 34, 125, 93, 125 >>,
       sealed |-> << 198, 197, 252, 219, 227, 220, 245, 41, 184, 69, 153, 80, 163, 51, 127, 145, 213, 130, 51, 81,
                    211, 210, 8, 43, 242, 203, 87, 148, 241, 223, 45, 231, 83, 218, 151, 202, 154, 66, 20, 198,
                    40, 123, 126, 75, 164, 212, 248, 61, 135, 170, 14, 57, 202, 229, 197, 129, 74, 12, 66, 127,
                    228, 68, 185, 103, 91, 7, 57, 44, 84, 161, 39, 3, 97, 209 >>],
      [key |-> << 20, 56, 190, 18, 174, 93, 240, 251, 102, 20, 219, 242, 174, 160, 33, 103, 125, 64, 105, 140,
                 225, 110, 182, 242, 191, 29, 18, 207, 15, 185, 112, 120 >>,
       iv |-> << 1, 1, 1, 1, 1, 1, 1, 1, 1, 1, 1, 1 >>,
       data |-> << 123, 34, 101, 110, 118, 34, 58, 91, 93, 125 >>,
       sealed |-> << 112, 3, 6, 15, 65, 181, 135, 86, 195, 90, 199, 253, 223, 146, 39, 131, 146, 200, 105, 176,
                    65, 156, 141, 213, 21, 204 >>],
      [key |-> << 20, 56, 190, 18, 174, 93, 240, 251, 102, 20, 219, 242, 174, 160, 33, 103, 125, 64, 105, 140,
                 225, 110, 182, 242, 191, 29, 18, 207, 15, 185, 112, 120 >>,
       iv |-> << 1, 1, 1, 1, 1, 1, 1, 1, 1, 1, 1, 1 >>,
       data |-> << 123, 34, 101, 110, 118, 34, 58, 91, 123, 34, 107, 101, 121, 34, 58, 34, 65, 34, 44, 34,
                  118, 97, 108, 117, 101, 34, 58, 34, 51, 34, 125, 93, 125 >>,
       sealed |-> << 112, 3, 6, 15, 65, 181, 135, 86, 229, 5, 139, 81, 54, 51, 238, 124, 30, 58, 122, 30,
                    6, 155, 103, 134, 18, 87, 158, 129, 122, 47, 99, 55, 167, 248, 133, 181, 134, 206, 118, 66,
                    219, 53, 247, 24, 120, 67, 242, 43, 226 >>],
      [key |-> << 20, 56, 190, 18, 174, 93, 240, 251, 102, 20, 219, 242, 174, 160, 33, 103, 125, 64, 105, 140,
                 225, 110, 182, 242, 191, 29, 18, 207, 15, 185, 112, 120 >>,
       iv |-> << 1, 1, 1, 1, 1, 1, 1, 1, 1, 1, 1, 1 >>,
       data |-> << 123, 34, 101, 110, 118, 34, 58, 91, 123, 34, 107, 101, 121, 34, 58, 34, 65, 34, 44, 34,
                  118, 97, 108, 117, 101, 34, 58, 34, 51, 34, 125, 44, 123, 34, 107, 101, 121, 34, 58, 34,
                  66, 34, 44, 34, 118, 97, 108, 117, 101, 34, 58, 34, 57, 92, 114, 34, 125, 93, 125 >>,
       sealed |-> << 112, 3, 6, 15, 65, 181, 135, 86, 229, 5, 139, 81, 54, 51, 238, 124, 30, 58, 122, 30,
                    6, 155, 103, 134, 18, 87, 158, 129, 122, 47, 99, 70, 161, 181, 253, 136, 68, 33, 139, 6,
                    169, 26, 203, 114, 209, 102, 153, 112, 153, 42, 50, 121, 115, 40, 248, 114, 169, 130, 118, 237,
                    149, 72, 192, 64, 161, 13, 106, 215, 238, 247, 0, 226, 141, 227, 15 >>],
      [key |-> << 20, 56, 190, 18, 174, 93, 240, 251, 102, 20, 219, 242, 174, 160, 33, 103, 125, 64, 105, 140,
                 225, 110, 182, 242, 191, 29, 18, 207, 15, 185, 112, 120 >>,
       iv |-> << 1, 1, 1, 1, 1, 1, 1, 1, 1, 1, 1, 1 >>,
       data |-> << 123, 34, 101, 110, 118, 34, 58, 91, 123, 34, 107, 101, 121, 34, 58, 34, 81, 34, 44, 34,
                  118, 97, 108, 117, 101, 34, 58, 34, 97, 92, 34, 92, 92, 195, 169, 92, 117, 48, 48, 49,
                  98, 226, 130, 172, 240, 159, 152, 128, 92, 117, 100, 56, 48, 48, 34, 125, 93, 125 >>,
       sealed |-> << 112, 3, 6, 15, 65, 181, 135, 86, 229, 5, 139, 81, 54, 51, 238, 124, 14, 58, 122, 30,
                    6, 155, 103, 134, 18, 87, 158, 129, 40, 81, 60, 54, 134, 84, 63, 177, 72, 51, 129, 21,
                    137, 218, 101, 252, 87, 152, 109, 133, 160, 125, 108, 99, 122, 68, 168, 45, 137, 162, 14, 136,
                    203, 228, 205, 92, 8, 197, 84, 137, 32, 134, 140, 142, 62, 37 >>],
      [key |-> << 20, 56, 190, 18, 174, 93, 240, 251, 102, 20, 219, 242, 174, 160, 33, 103, 125, 64, 105, 140,
                 225, 110, 182, 242, 191, 29, 18, 207, 15, 185, 112, 120 >>,
       iv |-> << 2, 2, 2, 2, 2, 2, 2, 2, 2, 2, 2, 2 >>,
       data |-> << 123, 34, 101, 110, 118, 34, 58, 91, 93, 125 >>,
       sealed |-> << 118, 245, 41, 91, 68, 206, 53, 248, 204, 9, 6, 114, 94, 191, 224, 200, 230, 121, 217, 190,
                    63, 61, 206, 5, 110, 10 >>],
      [key |-> << 20, 56, 190, 18, 174, 93, 240, 251, 102, 20, 219, 242, 174, 160, 33, 103, 125, 64, 105, 140,
                 225, 110, 182, 242, 191, 29, 18, 207, 15, 185, 112, 120 >>,
       iv |-> << 2, 2, 2, 2, 2, 2, 2, 2, 2, 2, 2, 2 >>,
       data |-> << 123, 34, 101, 110, 118, 34, 58, 91, 123, 34, 107, 101, 121, 34, 58, 34, 65, 34, 44, 34,
                  118, 97, 108, 117, 101, 34, 58, 34, 51, 34, 125, 93, 125 >>,
       sealed |-> << 118, 245, 41, 91, 68, 206, 53, 248, 234, 86, 224, 180, 189, 232, 38, 112, 51, 154, 29, 251,
                    20, 94, 219, 229, 218, 212, 226, 191, 87, 221, 171, 99, 187, 143, 159, 244, 39, 90, 135, 110,
                    162, 172, 20, 126, 234, 108, 236, 47, 8 >>],
      [key |-> << 20, 56, 190, 18, 174, 93, 240, 251, 102, 20, 219, 242, 174, 160, 33, 103, 125, 64, 105, 140,
                 225, 110, 182, 242, 191, 29, 18, 207, 15, 185, 112, 120 >>,
       iv |-> << 2, 2, 2, 2, 2, 2, 2, 2, 2, 2, 2, 2 >>,
       data |-> << 123, 34, 101, 110, 118, 34, 58, 91, 123, 34, 107, 101, 121, 34, 58, 34, 65, 34, 44, 34,
                  118, 97, 108, 117, 101, 34, 58, 34, 51, 34, 125, 44, 123, 34, 107, 101, 121, 34, 58, 34,
                  66, 34, 44, 34, 118, 97, 108, 117, 101, 34, 58, 34, 57, 92, 114, 34, 125, 93, 125 >>,
       sealed |-> << 118, 245, 41, 91, 68, 206, 53, 248, 234, 86, 224, 180, 189, 232, 38, 112, 51, 154, 29, 251,
                    20, 94, 219, 229, 218, 212, 226, 191, 87, 221, 171, 18, 189, 26, 69, 135, 163, 250, 47, 54,
                    245, 72, 118, 242, 138, 153, 100, 147, 143, 96, 17, 143, 216, 71, 108, 196, 132, 160, 81, 233,
                    227, 52, 131, 208, 121, 106, 78, 30, 155, 153, 201, 101, 24, 252, 198 >>],
      [key |-> << 20, 56, 190, 18, 174, 93, 240, 251, 102, 20, 219, 242, 174, 160, 33, 103, 125, 64, 105, 140,
                 225, 110, 182, 242, 191, 29, 18, 207, 15, 185, 112, 120 >>,
       iv |-> << 2, 2, 2, 2, 2, 2, 2, 2, 2, 2, 2, 2 >>,
       data |-> << 123, 34, 101, 110, 118, 34, 58, 91, 123, 34, 107, 101, 121, 34, 58, 34, 81, 34, 44, 34,
                  118, 97, 108, 117, 101, 34, 58, 34, 97, 92, 34, 92, 92, 195, 169, 92, 117, 48, 48, 49,
                  98, 226, 130, 172, 240, 159, 152, 128, 92, 117, 100, 56, 48, 48, 34, 125, 93, 125 >>,
       sealed |-> << 118, 245, 41, 91, 68, 206, 53, 248, 234, 86, 224, 180, 189, 232, 38, 112, 35, 154, 29, 251,
                    20, 94, 219, 229, 218, 212, 226, 191, 5, 163, 244, 98, 154, 251, 135, 190, 175, 232, 37, 37,
                    213, 136, 216, 124, 12, 103, 144, 102, 182, 55, 79, 149, 209, 43, 60, 155, 164, 128, 160, 203,
                    6, 9, 242, 167, 129, 253, 185, 100, 158, 16, 74, 199, 206, 85 >>] }

\* crypto.subtle.encrypt({ name: 'AES-GCM', iv }, key, data): the ciphertext
\* followed by its tag, its known values looked up
AesGcmEncrypt(key, iv, data) ==
    IF \E e \in KnownSeals : e.key = key /\ e.iv = iv /\ e.data = data
    THEN (CHOOSE e \in KnownSeals : e.key = key /\ e.iv = iv /\ e.data = data).sealed
    ELSE AesGcmSeal(key, iv, data)

\* what encryptSecrets settles with
EncryptResult(thrown, out) == [thrown |-> thrown, out |-> out]

\* a call of encryptSecrets: where it stands (awaiting importKey, awaiting
\* encrypt, returned or threw), its locals, the call that threw the error
\* the catch block wraps and rethrows, and the string returned
EncryptFrame(pc, envsJson, privateKey, publicKey, shared, iv, thrown, out) ==
    [pc |-> pc, envsJson |-> envsJson, privateKey |-> privateKey,
     publicKey |-> publicKey, shared |-> shared, iv |-> iv,
     thrown |-> thrown, out |-> out]

\* encryptSecrets from its first statement to the await of importKey, in a
\* call where randomPrivateKey() returns privateKey
EncryptStart(envs, pubkey, privateKey) ==
    LET envsJson == Stringify(envs)
        publicKey == getPublicKey(privateKey)
    IN  IF HexThrows(pubkey)
        THEN EncryptFrame("threw", envsJson, privateKey, publicKey, <<>>, <<>>,
                          "hexToUint8Array", EmptyString)
        ELSE LET remotePubkey == hexToUint8Array(pubkey) IN
             IF SharedSecretThrows(remotePubkey)
             THEN EncryptFrame("threw", envsJson, privateKey, publicKey, <<>>, <<>>,
                               "getSharedSecret", EmptyString)
             ELSE EncryptFrame("importKey", envsJson, privateKey, publicKey,
                               getSharedSecret(privateKey, remotePubkey), <<>>,
                               "none", EmptyString)

\* importKey has resolved: getRandomValues fills iv and encrypt is awaited
EncryptNonce(frame, iv) == [frame EXCEPT !.pc = "encrypt", !.iv = iv]

\* encrypt has resolved: public key, nonce and ciphertext are put together
\* and returned in hex
EncryptFinish(frame) ==
    [frame EXCEPT
        !.pc = "returned",
        !.out = uint8ArrayToHex(frame.publicKey \o frame.iv
                    \o AesGcmEncrypt(frame.shared, frame.iv, TextEncode(frame.envsJson)))]

\* encryptSecrets(envs, pubkey) from call to settling, in a call where
\* randomPrivateKey() returns privateKey and getRandomValues fills iv
encryptSecrets(envs, pubkey, privateKey, iv) ==
    IF EncryptStart(envs, pubkey, privateKey).pc = "threw"
    THEN EncryptResult(EncryptStart(envs, pubkey, privateKey).thrown, EmptyString)
    ELSE EncryptResult("none",
             EncryptFinish(EncryptNonce(EncryptStart(envs, pubkey, privateKey), iv)).out)

\* teepod_id used when options.teepodId is falsy
DefaultTeepodId == 3

DefaultImage == "dstack-dev-0.3.5"
DefaultVcpu == 1
DefaultMemory == 2048
DefaultDiskSize == 40

\* the options of a deploy or upgrade call
Options(type, mode, name, compose, teepodId, image, vcpu, env, envFile, envs) ==
    [type |-> type, mode |-> mode, name |-> name, compose |-> compose,
     teepodId |-> teepodId, image |-> image, vcpu |-> vcpu,
     memory |-> Undefined, diskSize |-> Undefined,
     env |-> env, envFile |-> envFile, envs |-> envs]

NoConfig == [op |-> "none"]

\* const vm_config = {...} of deploy
DeployConfig(options, teepodId, composeContent) ==
    [op |-> "deploy",
     teepod_id |-> teepodId,
     name |-> options.name,
     image |-> OrStr(options.image, DefaultImage),
     vcpu |-> OrNum(options.vcpu, DefaultVcpu),
     memory |-> OrNum(options.memory, DefaultMemory),
     disk_size |-> OrNum(options.diskSize, DefaultDiskSize),
     compose_manifest |-> [docker_compose_file |-> composeContent,
                           manifest_version |-> 2,
                           name |-> options.name],
     listed |-> FALSE]

\* const vm_config = {...} of upgrade
UpgradeConfig(options, composeContent) ==
    [op |-> "upgrade",
     compose_manifest |-> [docker_compose_file |-> composeContent,
                           manifest_version |-> 1,
                           name |-> <<"app_", options.name>>],
     allow_restart |-> TRUE]

\* str.startsWith(prefix)
StartsWith(str, prefix) ==
    Len(str) >= Len(prefix) /\ SubSeq(str, 1, Len(prefix)) = prefix

\* str.replace(pattern, ''): the first occurrence of the pattern is removed
RemoveFirst(str, pattern) ==
    LET at == { k \in 1..(Len(str) - Len(pattern) + 1) :
                    SubSeq(str, k, k + Len(pattern) - 1) = pattern }
    IN  IF at = {} THEN str
        ELSE LET k == CHOOSE j \in at : \A l \in at : j <= l
             IN  SubSeq(str, 1, k - 1) \o SubSeq(str, k + Len(pattern), Len(str))

\* 'app_'
AppPrefix == << 97, 112, 112, 95 >>   \* "app_"

\* the options of an updateCompose call; the options it leaves undefined
\* (dockerConfig, features, kmsEnabled, ...) take their defaults
UpdateOptions(identifier, compose, allowRestart, env, envFile, envs) ==
    [identifier |-> identifier, compose |-> compose, allowRestart |-> allowRestart,
     env |-> env, envFile |-> envFile, envs |-> envs]

\* const identifier = options.identifier.startsWith('app_') ? ... : `app_${...}`
NormalIdentifier(identifier) ==
    IF StartsWith(identifier, AppPrefix) THEN identifier ELSE AppPrefix \o identifier

\* compose_manifest and the payload fields of updateCompose other than
\* encrypted_env
UpdateConfig(options, identifier, composeContent) ==
    [op |-> "updateCompose",
     id |-> identifier,
     compose_manifest |-> [docker_compose_file |-> composeContent,
                           manifest_version |-> 1,
                           name |-> identifier],
     allow_restart |-> IF options.allowRestart # "undefined"
                       THEN (IF options.allowRestart = "true" THEN 1 ELSE 0)
                       ELSE 1]

\* a request body: vm_config alone, or final_payload = {...vm_config, ...}
ConfigPayload(config) ==
    [config |-> config, final |-> FALSE, encrypted_env |-> NoCipher,
     app_env_encrypt_pubkey |-> EmptyString, app_id_salt |-> EmptyString]

\* mutant of FinalPayload: the salt of the key response is not forwarded
FinalPayload_NoSalt(config, encrypted_env, pubkey, salt) ==
    [config |-> config, final |-> TRUE, encrypted_env |-> encrypted_env,
     app_env_encrypt_pubkey |-> pubkey, app_id_salt |-> EmptyString]

FinalPayload(config, encrypted_env, pubkey, salt) ==
    [config |-> config, final |-> TRUE, encrypted_env |-> encrypted_env,
     app_env_encrypt_pubkey |-> pubkey, app_id_salt |-> salt]
NoPayload == ConfigPayload(NoConfig)

\* entries of the log of a call: what it did and what it was answered, in
\* order
DeployEvent(ev, payload, envs, key) ==
    [ev |-> ev, payload |-> payload, envs |-> envs, key |-> key, body |-> EmptyBody,
     app |-> EmptyString]    \* of a request: the deployment its path names

\* the log entry of the settling of an apiClient call
SettledEvent(t) ==
    IF t.phase = "returned"
    THEN [DeployEvent("returned", NoPayload, <<>>, EmptyString) EXCEPT !.body = t.data]
    ELSE DeployEvent("rejected", NoPayload, <<>>, EmptyString)

\* the local variables of a deploy or upgrade call about to start
NewDeploy(op, options) ==
    [op |-> op, options |-> options, pc |-> "start",
     callerEnvs |-> options.envs,              \* options.envs as the caller passed it
     composeContent |-> "",
     teepodId |-> Undefined,
     identifier |-> EmptyString,               \* of updateCompose
     vm_config |-> NoConfig,
     app_env_encrypt_pubkey |-> EmptyString,   \* for upgrade: cvm.encrypted_env_pubkey
     app_id_salt |-> EmptyString,
     encrypted_env |-> NoCipher,
     nEncrypt |-> 0,          \* encryptSecrets calls made by this call
     draws |-> 0,             \* encryptSecrets calls made in the process: each
                              \* draws an ephemeral key and a nonce of its own
     earlier |-> <<>>,        \* the calls settled before this one on the instance
     log |-> <<>>,
     ret |-> EmptyBody,       \* value the call resolved to (pc = "done")
     thrown |-> NoError]      \* error the call rejected with (pc = "threw")

\* mutant of Invalid: the compose option is not checked
Invalid_ComposeUnchecked(op, options) ==
    IF op = "deploy"
    THEN CASE ~TruthyStr(options.type) \/ options.type # "phala"          -> "type"
           [] ~TruthyStr(options.mode) \/ options.mode # "docker-compose" -> "mode"
           [] ~TruthyStr(options.name)                                    -> "name"
           [] OTHER                                                       -> ""
    ELSE CASE ~TruthyStr(options.name)    -> "name"
           [] OTHER                       -> ""

\* the validation at the top of deploy and of upgrade: the option whose check
\* throws, or "" when all pass
Invalid(op, options) ==
    IF op = "deploy"
    THEN CASE ~TruthyStr(options.type) \/ options.type # "phala"          -> "type"
           [] ~TruthyStr(options.mode) \/ options.mode # "docker-compose" -> "mode"
           [] ~TruthyStr(options.name)                                    -> "name"
           [] ~TruthyStr(options.compose)                                 -> "compose"
           [] OTHER                                                       -> ""
    ELSE CASE ~TruthyStr(options.name)    -> "name"
           [] ~TruthyStr(options.compose) -> "compose"
           [] OTHER                       -> ""

\* the validation at the top of updateCompose
InvalidUpdate(options) ==
    CASE ~TruthyChars(options.identifier) -> "identifier"
      [] ~TruthyStr(options.compose)      -> "compose"
      [] OTHER                            -> ""

InvalidOptions(op, options) ==
    IF op = "updateCompose" THEN InvalidUpdate(options) ELSE Invalid(op, options)

\* the call rejects
DeployThrow(f, err) == [f EXCEPT !.d.pc = "threw", !.d.thrown = err, !.t = IdleTransport]

DeployLog(f, ev, payload, envs, key) ==
    [f EXCEPT !.d.log = Append(@, DeployEvent(ev, payload, envs, key))]

\* this.apiClient.get / post / put: executeWithRetry starts and the call
\* awaits it; app is the deployment named in the path, if any
ApiCallOn(f, kind, app, payload) ==
    [f EXCEPT
        !.d.log = Append(@, [DeployEvent(kind, payload, <<>>, EmptyString) EXCEPT !.app = app]),
        !.d.pc = kind,
        !.o.nHttpQuery = 0,
        !.t = TransportCall(kind, DefaultTransportRetries)]

ApiCall(f, kind, payload) == ApiCallOn(f, kind, EmptyString, payload)

\* mutant of SendFinal: the final request goes to the create operation
SendFinal_Create(f) ==
    ApiCall(f, "create", FinalPayload(f.d.vm_config, f.d.encrypted_env,
                                      f.d.app_env_encrypt_pubkey, f.d.app_id_salt))

\* final_payload is built and sent: deploy posts it to
\* /api/v1/cvms/from_cvm_configuration, upgrade to
\* /api/v1/cvms/app_${options.name}/compose, updateCompose puts it to
\* /api/v1/cvms/${identifier}/compose
SendFinal(f) ==
    CASE f.d.op = "deploy" ->
            ApiCall(f, "create", FinalPayload(f.d.vm_config, f.d.encrypted_env,
                                              f.d.app_env_encrypt_pubkey, f.d.app_id_salt))
      [] f.d.op = "upgrade" ->
            ApiCallOn(f, "compose", <<"app_", f.d.options.name>>,
                      FinalPayload(f.d.vm_config, f.d.encrypted_env, EmptyString, EmptyString))
      [] OTHER ->
            ApiCallOn(f, "composePut", f.d.identifier,
                      FinalPayload(f.d.vm_config, f.d.encrypted_env, EmptyString, EmptyString))

\* encryptSecrets(options.envs, pubkey) is called and awaited
CallEncrypt(f, pubkey) ==
    [DeployLog(f, "encrypt", NoPayload, f.d.options.envs, pubkey) EXCEPT
        !.d.pc = "encrypt", !.d.nEncrypt = @ + 1, !.d.draws = @ + 1]

\* deploy from the vm_config literal to the await of the key request
AfterTeepod(f, teepodId) ==
    LET vm_config == DeployConfig(f.d.options, teepodId, f.d.composeContent)
        f1 == DeployLog([f EXCEPT !.d.teepodId = teepodId, !.d.vm_config = vm_config],
                        "config", ConfigPayload(vm_config), <<>>, EmptyString)
    IN  ApiCall(f1, "pubkey", ConfigPayload(vm_config))

\* mutant of DeployStart: an envs array the caller supplied is kept
DeployStart_KeepCallerEnvs(f) ==
    LET bad == InvalidOptions(f.d.op, f.d.options) IN
    IF bad # ""
    THEN DeployThrow(f, SdkError(bad))
    ELSE LET envs == IF f.d.options.envs # <<>> THEN f.d.options.envs
                     ELSE parseEnv(f.d.options.env, f.d.options.envFile)
             f1 == DeployLog([f EXCEPT !.d.options.envs = envs],
                             "parseEnv", NoPayload, envs, EmptyString)
         IN  [DeployLog(f1, "readFile", NoPayload, <<>>, EmptyString) EXCEPT !.d.pc = "readFile"]

\* entry of deploy and of upgrade, to the await of fs.readFile
DeployStart(f) ==
    LET bad == InvalidOptions(f.d.op, f.d.options) IN
    IF bad # ""
    THEN DeployThrow(f, SdkError(bad))
    ELSE LET envs == parseEnv(f.d.options.env, f.d.options.envFile)
             f1 == DeployLog([f EXCEPT !.d.options.envs = envs],
                             "parseEnv", NoPayload, envs, EmptyString)
         IN  [DeployLog(f1, "readFile", NoPayload, <<>>, EmptyString) EXCEPT !.d.pc = "readFile"]

\* from the resolution of fs.readFile to the next await: deploy chooses the
\* teepod and requests the key; upgrade and updateCompose fetch the
\* deployment with getCvmByAppId(appId), a GET of /api/v1/cvms/app_${appId}
AfterReadFile(f, content) ==
    LET f1 == [f EXCEPT !.d.composeContent = content] IN
    CASE f.d.op = "deploy" ->
            LET teepodId == OrNum(f.d.options.teepodId, DefaultTeepodId) IN
            IF ~TruthyNum(teepodId)
            THEN ApiCall(f1, "teepods", NoPayload)
            ELSE AfterTeepod(f1, teepodId)
      [] f.d.op = "upgrade" ->
            ApiCallOn(f1, "cvm", <<"app_", f.d.options.name>>, NoPayload)
      [] OTHER ->
            ApiCallOn([f1 EXCEPT !.d.identifier = NormalIdentifier(f.d.options.identifier)],
                      "cvm", AppPrefix \o RemoveFirst(f.d.options.identifier, AppPrefix),
                      NoPayload)

\* teepods.filter(teepod => teepod.available && teepod.status === 'online')
AvailableTeepods(teepods) ==
    SelectSeq(teepods, LAMBDA teepod : teepod.available /\ teepod.status = "online")

\* from the settling of listTeepods: both throws inside the try and a
\* rejection of listTeepods end in the Error of the catch block
AfterTeepods(f) ==
    LET teepods == f.t.data.data IN
    IF f.t.phase = "thrown" \/ Len(teepods) = 0 \/ Len(AvailableTeepods(teepods)) = 0
    THEN DeployThrow(f, SdkError("teepods"))
    ELSE AfterTeepod([f EXCEPT !.t = IdleTransport], AvailableTeepods(teepods)[1].id)

\* mutant of HasSecrets: encryption is attempted for an empty set too
HasSecrets_Always(envs) == TRUE

\* options.envs && options.envs.length > 0
HasSecrets(envs) == Len(envs) > 0

\* mutant of AfterPubkey: the key of an earlier call is kept and used again
AfterPubkey_Reuse(f) ==
    IF f.t.phase = "thrown" THEN DeployThrow(f, f.t.lastError)
    ELSE LET pubkeyResponse == f.t.data
             key == IF f.d.earlier # <<>>
                       /\ TruthyChars(f.d.earlier[Len(f.d.earlier)].app_env_encrypt_pubkey)
                    THEN f.d.earlier[Len(f.d.earlier)].app_env_encrypt_pubkey
                    ELSE pubkeyResponse.app_env_encrypt_pubkey
             f1 == [f EXCEPT !.t = IdleTransport,
                             !.d.app_env_encrypt_pubkey = key,
                             !.d.app_id_salt = pubkeyResponse.app_id_salt]
         IN  IF ~TruthyChars(key)
             THEN DeployThrow(f, SdkError("pubkey"))
             ELSE IF HasSecrets(f.d.options.envs)
                  THEN CallEncrypt(f1, key)
                  ELSE SendFinal(f1)

\* from the settling of the key request of deploy
AfterPubkey(f) ==
    IF f.t.phase = "thrown" THEN DeployThrow(f, f.t.lastError)
    ELSE LET pubkeyResponse == f.t.data
             f1 == [f EXCEPT !.t = IdleTransport,
                             !.d.app_env_encrypt_pubkey = pubkeyResponse.app_env_encrypt_pubkey,
                             !.d.app_id_salt = pubkeyResponse.app_id_salt]
         IN  IF ~TruthyChars(pubkeyResponse.app_env_encrypt_pubkey)
             THEN DeployThrow(f, SdkError("pubkey"))
             ELSE IF HasSecrets(f.d.options.envs)
                  THEN CallEncrypt(f1, pubkeyResponse.app_env_encrypt_pubkey)
                  ELSE SendFinal(f1)

\* from the settling of getCvmByAppId in upgrade and in updateCompose
AfterCvm(f) ==
    IF f.t.phase = "thrown" THEN DeployThrow(f, f.t.lastError)
    ELSE LET cvm == f.t.data
             vm_config == IF f.d.op = "upgrade"
                          THEN UpgradeConfig(f.d.options, f.d.composeContent)
                          ELSE UpdateConfig(f.d.options, f.d.identifier, f.d.composeContent)
             f1 == DeployLog([f EXCEPT !.t = IdleTransport,
                                       !.d.vm_config = vm_config,
                                       !.d.app_env_encrypt_pubkey = cvm.encrypted_env_pubkey],
                             "config", ConfigPayload(vm_config), <<>>, EmptyString)
         IN  IF HasSecrets(f.d.options.envs) /\ TruthyChars(cvm.encrypted_env_pubkey)
             THEN CallEncrypt(f1, cvm.encrypted_env_pubkey)
             ELSE SendFinal(f1)

\* mutant of AfterEncrypt: a rejection of encryptSecrets is swallowed and the
\* final request is sent without secrets
AfterEncrypt_Swallowed(f) ==
    LET pubkey == f.d.app_env_encrypt_pubkey IN
    IF EncryptThrows(pubkey)
    THEN SendFinal(f)
    ELSE SendFinal([f EXCEPT !.d.encrypted_env =
                        Cipher(f.d.options.envs, hexToUint8Array(pubkey), f.d.draws)])

\* from the settling of encryptSecrets
AfterEncrypt(f) ==
    LET pubkey == f.d.app_env_encrypt_pubkey IN
    IF EncryptThrows(pubkey)
    THEN DeployThrow(f, SdkError("encryptSecrets"))
    ELSE SendFinal([f EXCEPT !.d.encrypted_env =
                        Cipher(f.d.options.envs, hexToUint8Array(pubkey), f.d.draws)])

\* `return this.apiClient.post(...)`: the call settles as the request does
AfterFinal(f) ==
    IF f.t.phase = "thrown" THEN DeployThrow(f, f.t.lastError)
    ELSE [f EXCEPT !.d.pc = "done", !.d.ret = f.t.data, !.t = IdleTransport]

\* deploy(options) or upgrade(options) is called
DeployCall(i) ==
    /\ deploy[i].pc = "start"
    /\ Commit(i, DeployStart(Frame(i)))

\* await fs.readFile(options.compose, 'utf-8') resolves or rejects
ReadFileSettled(i) ==
    /\ deploy[i].pc = "readFile"
    /\ \E ok \in BOOLEAN :
          LET f == Frame(i) IN
          Commit(i, IF ok THEN AfterReadFile(f, ComposeContent)
                          ELSE DeployThrow(f, SdkError("readFile")))

\* the apiClient call awaited by deploy or upgrade settles
DeployHttpSettled(i) ==
    /\ deploy[i].pc \in {"teepods", "pubkey", "cvm", "create", "compose", "composePut"}
    /\ transport[i].phase \in {"returned", "thrown"}
    /\ LET f == [Frame(i) EXCEPT !.d.log = Append(@, SettledEvent(transport[i]))] IN
       Commit(i, CASE f.d.pc = "teepods" -> AfterTeepods(f)
                   [] f.d.pc = "pubkey"  -> AfterPubkey(f)
                   [] f.d.pc = "cvm"     -> AfterCvm(f)
                   [] OTHER              -> AfterFinal(f))

\* await encryptSecrets(...) resolves or rejects
EncryptSettled(i) ==
    /\ deploy[i].pc = "encrypt"
    /\ Commit(i, AfterEncrypt(Frame(i)))

----------------------------------------------------------------------------
(* Specification: sessions whose callbacks return normally *)

Init ==
    /\ monitor \in [Sessions -> { NewMonitor(iv, mr, {}) :
                                    iv \in Intervals, mr \in 0..MaxAttempts }]
    /\ transport = [i \in Sessions |-> IdleTransport]
    /\ observer = [i \in Sessions |-> NewObserver]
    /\ deploy = [i \in Sessions |-> IdleDeploy]
    /\ codec = IdleCodec

Next ==
    \E i \in Sessions :
        \/ Call(i)
        \/ RetryDelay(i)
        \/ HttpRequest(i)
        \/ QueryReturned(i)
        \/ QueryThrew(i)
        \/ NetworkSettled(i)
        \/ PauseDone(i)
        \/ WaitDone(i)

Spec == Init /\ [][Next]_vars

----------------------------------------------------------------------------
(* Specification: one apiClient.get on an ApiClient constructed with
   maxRetries in 0..MaxTransportRetries *)

\* apiClient.get(path) is called and runs to the first await of executeWithRetry
ApiGet(i) ==
    /\ monitor[i].pc = "api"
    /\ \E kind \in {"status", "network"} :
          LET f == Frame(i)
          IN  Commit(i, [f EXCEPT !.m.pc = "apiwait",
                                  !.t = TransportCall(kind, f.t.maxRetries)])

\* executeWithRetry returned response.data or threw lastError to the caller
ApiSettled(i) ==
    /\ monitor[i].pc = "apiwait"
    /\ transport[i].phase \in {"returned", "thrown"}
    /\ LET f == Frame(i)
       IN  Commit(i, IF f.t.phase = "returned"
                     THEN [f EXCEPT !.m.pc = "apidone", !.m.data = f.t.data,
                                    !.t = [IdleTransport EXCEPT !.maxRetries = f.t.maxRetries]]
                     ELSE [f EXCEPT !.m.pc = "apithrew", !.m.thrown = f.t.lastError,
                                    !.t = [IdleTransport EXCEPT !.maxRetries = f.t.maxRetries]])

InitTransport ==
    /\ monitor = [i \in Sessions |->
                    [NewMonitor(0, 0, {}) EXCEPT !.pc = "api"]]
    /\ transport \in [Sessions -> { [IdleTransport EXCEPT !.maxRetries = mr] :
                                      mr \in 0..MaxTransportRetries }]
    /\ observer = [i \in Sessions |-> NewObserver]
    /\ deploy = [i \in Sessions |-> IdleDeploy]
    /\ codec = IdleCodec

NextTransport ==
    \E i \in Sessions :
        \/ ApiGet(i)
        \/ RetryDelay(i)
        \/ HttpRequest(i)
        \/ ApiSettled(i)

SpecTransport == InitTransport /\ [][NextTransport]_vars

----------------------------------------------------------------------------
(* Specification: one monitorDeploymentStatus call or one apiClient.get, in
   an environment where every request settles and every timer fires *)

\* what the server answers: a status in progress, a success, a failure, a
\* client error, which the transport does not retry, or a server error,
\* which it retries; every request takes the same time
LiveOutcomes(kind) ==
    { out \in HttpOutcomes(kind) :
        /\ ~out.ok => out.code \in {404, 503}
        /\ (out.ok /\ kind = "status") =>
              out.body.status \in { << 115, 116, 97, 114, 116, 105, 110, 103 >>,   \* "starting"
                                    << 114, 117, 110, 110, 105, 110, 103 >>,   \* "running"
                                    << 102, 97, 105, 108, 101, 100 >> } }   \* "failed"

LiveHttpRequest(i) == HttpRequestOf(i, LiveOutcomes(transport[i].kind), {200})

\* a monitor call of up to MaxLiveAttempts attempts, or an apiClient.get on a
\* client of up to MaxTransportRetries retries
InitLive ==
    /\ \/ /\ monitor \in [Sessions -> { NewMonitor(1000, mr, {}) : mr \in 0..MaxLiveAttempts }]
          /\ transport = [i \in Sessions |-> IdleTransport]
       \/ /\ monitor = [i \in Sessions |-> [NewMonitor(0, 0, {}) EXCEPT !.pc = "api"]]
          /\ transport \in [Sessions -> { [IdleTransport EXCEPT !.maxRetries = mr] :
                                            mr \in 0..MaxTransportRetries }]
    /\ observer = [i \in Sessions |-> NewObserver]
    /\ deploy = [i \in Sessions |-> IdleDeploy]
    /\ codec = IdleCodec

NextLive ==
    \E i \in Sessions :
        \/ Call(i)
        \/ ApiGet(i)
        \/ RetryDelay(i)
        \/ LiveHttpRequest(i)
        \/ QueryReturned(i)
        \/ QueryThrew(i)
        \/ NetworkSettled(i)
        \/ PauseDone(i)
        \/ WaitDone(i)
        \/ ApiSettled(i)

\* a request that was issued settles, a timer that was set fires, and the
\* continuation of a settled promise is run by the event loop
Fairness ==
    \A i \in Sessions :
        /\ WF_vars(Call(i) \/ ApiGet(i))
        /\ WF_vars(LiveHttpRequest(i))
        /\ WF_vars(RetryDelay(i) \/ PauseDone(i) \/ WaitDone(i))
        /\ WF_vars(QueryReturned(i) \/ QueryThrew(i) \/ NetworkSettled(i) \/ ApiSettled(i))

SpecLive == InitLive /\ [][NextLive]_vars /\ Fairness

----------------------------------------------------------------------------
(* Specification: one monitorDeploymentStatus call whose onStatusChange,
   onSuccess or onFailure may throw *)

\* the callbacks of the options that throw whenever they are invoked
ThrowingCallbacks == SUBSET {"onStatusChange", "onSuccess", "onFailure"}

InitThrowing ==
    /\ monitor \in [Sessions -> { NewMonitor(1000, mr, th) :
                                    mr \in 0..MaxThrowingAttempts, th \in ThrowingCallbacks }]
    /\ transport = [i \in Sessions |-> IdleTransport]
    /\ observer = [i \in Sessions |-> NewObserver]
    /\ deploy = [i \in Sessions |-> IdleDeploy]
    /\ codec = IdleCodec

NextThrowing ==
    \E i \in Sessions :
        \/ Call(i)
        \/ RetryDelay(i)
        \/ LiveHttpRequest(i)
        \/ QueryReturned(i)
        \/ QueryThrew(i)
        \/ NetworkSettled(i)
        \/ PauseDone(i)
        \/ WaitDone(i)

SpecThrowing == InitThrowing /\ [][NextThrowing]_vars

----------------------------------------------------------------------------
(* Specification: one deploy, upgrade or updateCompose call *)

\* strings of the env option and lines of the env file
EnvA1 == << 65, 61, 49 >>   \* "A=1"
EnvB2 == << 66, 61, 50 >>   \* "B=2"
EnvA3 == << 65, 61, 51 >>   \* "A=3"
EnvNoSep == << 65 >>   \* "A"
EnvNoKey == << 61, 120 >>   \* "=x"
EnvNoValue == << 66, 61 >>   \* "B="
EnvTwoSeps == << 67, 61, 49, 61, 50 >>   \* "C=1=2"
EnvTen == << 49, 48, 61, 120 >>   \* "10=x"
EnvNine == << 57, 61, 121 >>   \* "9=y"
EnvProtoX == ProtoKey \o << 61, 120 >>   \* "__proto__=x"
EnvProto == ProtoKey \o << 61, 121 >>   \* "__proto__=y"

EnvLists ==
    { <<>>,
      << EnvA1, EnvB2, EnvA3 >>,
      << EnvNoSep, EnvNoKey, EnvNoValue, EnvTwoSeps >>,
      << EnvTen, EnvNine, EnvProtoX, EnvProto >> }

EnvFiles ==
    { EnvFile("", FALSE, <<>>),
      EnvFile(".env", FALSE, <<>>),
      EnvFile(".env", TRUE, << 66, 61, 57, 10, 68, 61, 52, 10 >>) }

\* envs arrays a caller can put into the options
CallerEnvs == { <<>>, << [key |-> << 88 >>, value |-> << 57 >>] >> }

DeployInputs ==
    { Options(type, mode, name, compose, teepodId, image, Undefined, env, envFile, envs) :
        type \in {"", "phala", "other"}, mode \in {"", "docker-compose", "other"},
        name \in {"", "app"}, compose \in {"", "compose.yml"},
        teepodId \in {Undefined, 0, 7}, image \in {"", "custom"},
        env \in EnvLists, envFile \in EnvFiles, envs \in CallerEnvs }

UpgradeInputs ==
    { Options("", "", name, compose, Undefined, "", Undefined, env, envFile, envs) :
        name \in {"", "app"}, compose \in {"", "compose.yml"},
        env \in EnvLists, envFile \in EnvFiles, envs \in CallerEnvs }

\* application ids are hex strings; an identifier is an id, bare or with the
\* app_ prefix, or any other string the caller passes
AppId == << 99, 48, 100, 101 >>   \* "c0de"
Identifiers ==
    { EmptyString, AppId, AppPrefix \o AppId,
      << 99, 48 >> \o AppPrefix \o << 100, 101 >> }   \* "c0app_de"

UpdateInputs ==
    { UpdateOptions(identifier, compose, allowRestart, env, envFile, envs) :
        identifier \in Identifiers, compose \in {"", "compose.yml"},
        allowRestart \in {"undefined", "false"},
        env \in EnvLists, envFile \in EnvFiles, envs \in CallerEnvs }

InitDeploy ==
    /\ monitor = [i \in Sessions |-> [NewMonitor(0, 0, {}) EXCEPT !.pc = "none"]]
    /\ transport = [i \in Sessions |-> IdleTransport]
    /\ observer = [i \in Sessions |-> NewObserver]
    /\ deploy \in [Sessions -> { NewDeploy("deploy", o) : o \in DeployInputs }
                               \cup { NewDeploy("upgrade", o) : o \in UpgradeInputs }
                               \cup { NewDeploy("updateCompose", o) : o \in UpdateInputs }]
    /\ codec = IdleCodec

NextDeploy ==
    \E i \in Sessions :
        \/ DeployCall(i)
        \/ ReadFileSettled(i)
        \/ RetryDelay(i)
        \/ HttpRequest(i)
        \/ DeployHttpSettled(i)
        \/ EncryptSettled(i)

SpecDeploy == InitDeploy /\ [][NextDeploy]_vars

----------------------------------------------------------------------------
(* Specification: deploy calls made one after the other on one instance *)

\* the options of consecutive deploy calls: valid, with and without secrets
RedeployInputs ==
    { Options("phala", "docker-compose", "app", "compose.yml", Undefined, "", Undefined,
              env, EnvFile("", FALSE, <<>>), <<>>) :
        env \in { <<>>, << EnvA1, EnvB2, EnvA3 >> } }

\* what a settled call leaves to be compared with the calls after it; the
\* instance itself keeps nothing of it (its only field is apiClient)
Settled(d) ==
    [pc |-> d.pc, app_env_encrypt_pubkey |-> d.app_env_encrypt_pubkey,
     encrypted_env |-> d.encrypted_env]

\* deploy is called again on the same instance after a call has settled: a
\* new invocation with its own locals, run up to its first await.  The
\* locals of the settled call and of its requests are gone.
DeployAgain(i) ==
    /\ deploy[i].pc \in {"done", "threw"}
    /\ Len(deploy[i].earlier) + 1 < MaxCalls
    /\ \E o \in RedeployInputs :
          LET f == Frame(i)
              d == [NewDeploy("deploy", o) EXCEPT
                       !.draws = f.d.draws,
                       !.earlier = Append(f.d.earlier, Settled(f.d))]
          IN  Commit(i, DeployStart([m |-> [NewMonitor(0, 0, {}) EXCEPT !.pc = "none"],
                                     t |-> IdleTransport, o |-> NewObserver, d |-> d]))

InitRedeploy ==
    /\ monitor = [i \in Sessions |-> [NewMonitor(0, 0, {}) EXCEPT !.pc = "none"]]
    /\ transport = [i \in Sessions |-> IdleTransport]
    /\ observer = [i \in Sessions |-> NewObserver]
    /\ deploy \in [Sessions -> { NewDeploy("deploy", o) : o \in RedeployInputs }]
    /\ codec = IdleCodec

NextRedeploy ==
    \/ NextDeploy
    \/ \E i \in Sessions : DeployAgain(i)

SpecRedeploy == InitRedeploy /\ [][NextRedeploy]_vars

----------------------------------------------------------------------------
(* Specification: two monitoring sessions of one PhalaCloud instance,
   interleaved at their awaits *)

ConcurrentSessions == {1, 2}

\* what the server answers to the two sessions: a status that is neither
\* success nor failure, a success, a failure, or a client error, which the
\* transport does not retry; every request takes the same time
ConcurrentOutcomes(kind) ==
    { out \in HttpOutcomes(kind) :
        /\ ~out.ok => out.code = 404
        /\ (out.ok /\ kind = "status") =>
              out.body.status \in { << 115, 116, 97, 114, 116, 105, 110, 103 >>,   \* "starting"
                                    << 114, 117, 110, 110, 105, 110, 103 >>,   \* "running"
                                    << 102, 97, 105, 108, 101, 100 >> } }   \* "failed"

ConcurrentHttpRequest(i) ==
    HttpRequestOf(i, ConcurrentOutcomes(transport[i].kind), {200})

InitConcurrent ==
    /\ monitor \in [ConcurrentSessions ->
                       { NewMonitor(1000, mr, {}) : mr \in 1..MaxConcurrentAttempts }]
    /\ transport = [i \in ConcurrentSessions |-> IdleTransport]
    /\ observer = [i \in ConcurrentSessions |-> NewObserver]
    /\ deploy = [i \in ConcurrentSessions |-> IdleDeploy]
    /\ codec = IdleCodec

\* no request is retried under ConcurrentOutcomes, so no backoff delay is
\* ever awaited
NextConcurrent ==
    \E i \in ConcurrentSessions :
        \/ Call(i)
        \/ ConcurrentHttpRequest(i)
        \/ QueryReturned(i)
        \/ QueryThrew(i)
        \/ NetworkSettled(i)
        \/ PauseDone(i)
        \/ WaitDone(i)

SpecConcurrent == InitConcurrent /\ [][NextConcurrent]_vars

----------------------------------------------------------------------------
(* Specification: encryptSecrets called directly, several times with the
   same arguments, a call being made while earlier ones are still pending *)

\* encryptSecrets(envs, pubkey) is called and runs to its first await, or
\* throws before it
EncryptCall ==
    /\ codec.pc = "ready"
    /\ Len(codec.calls) < MaxEncryptCalls
    /\ \E privateKey \in randomPrivateKey(codec) :
          codec' = [codec EXCEPT
                       !.calls = Append(@, EncryptStart(codec.envs, codec.pubkey, privateKey)),
                       !.settled = IF EncryptThrows(codec.pubkey)
                                   THEN Append(@, Len(codec.calls) + 1)
                                   ELSE @]
    /\ UNCHANGED <<monitor, transport, observer, deploy>>

\* the importKey promise of call c resolves: the call draws its nonce and
\* awaits encrypt
ImportKeyResolved(c) ==
    /\ codec.pc = "ready"
    /\ c \in 1..Len(codec.calls)
    /\ codec.calls[c].pc = "importKey"
    /\ \E iv \in getRandomValues(codec) :
          codec' = [codec EXCEPT !.calls[c] = EncryptNonce(@, iv)]
    /\ UNCHANGED <<monitor, transport, observer, deploy>>

\* the encrypt promise of call c resolves: the call returns its string
EncryptResolved(c) ==
    /\ codec.pc = "ready"
    /\ c \in 1..Len(codec.calls)
    /\ codec.calls[c].pc = "encrypt"
    /\ codec' = [codec EXCEPT !.calls[c] = EncryptFinish(@),
                              !.settled = Append(@, c)]
    /\ UNCHANGED <<monitor, transport, observer, deploy>>

\* the arguments of the calls, the random source in use, the calls made so
\* far and the order in which they settled
InitEncrypt ==
    /\ monitor = [i \in Sessions |-> [NewMonitor(0, 0, {}) EXCEPT !.pc = "none"]]
    /\ transport = [i \in Sessions |-> IdleTransport]
    /\ observer = [i \in Sessions |-> NewObserver]
    /\ deploy = [i \in Sessions |-> IdleDeploy]
    /\ codec \in { [pc |-> "ready", random |-> random, envs |-> envs, pubkey |-> pubkey,
                     calls |-> <<>>, settled |-> <<>>] :
                     random \in RandomSources, envs \in SecretSets, pubkey \in EncryptKeys }

NextEncrypt ==
    \/ EncryptCall
    \/ \E c \in 1..MaxEncryptCalls :
        \/ ImportKeyResolved(c)
        \/ EncryptResolved(c)

SpecEncrypt == InitEncrypt /\ [][NextEncrypt]_vars

----------------------------------------------------------------------------
(* Vocabulary of the properties, defined on what the observer recorded and *)
(* independently of the operators above                                    *)

\* the statuses of the model that equal "running" case-insensitively
RunningStatuses ==
    { << 114, 117, 110, 110, 105, 110, 103 >>,   \* "running"
      << 82, 117, 110, 110, 105, 110, 103 >> }   \* "Running"

\* the statuses of the model that are not running and contain "error" or "fail"
\* case-insensitively
FailureStatuses ==
    { << 102, 97, 105, 108, 101, 100 >>,                  \* "failed"
      << 98, 111, 111, 116, 95, 69, 82, 82, 79, 82 >> }   \* "boot_ERROR"

StrStarting == << 115, 116, 97, 114, 116, 105, 110, 103 >>   \* "starting"

\* indices of the status queries that failed / that returned a snapshot
FailedQueries(obsd) == { k \in 1..Len(obsd) : ~obsd[k].ok }
OkQueries(obsd) == { k \in 1..Len(obsd) : obsd[k].ok }

Max(S) == CHOOSE x \in S : \A y \in S : y <= x

\* the snapshot the k-th status query returned, before any enrichment
SnapshotOf(obsd, k) == [seq |-> k, status |-> obsd[k].status, app_url |-> NoUrl]

\* the last snapshot obtained, or null if no query ever succeeded
LastSnapshot(obsd) ==
    IF OkQueries(obsd) = {} THEN Null ELSE SnapshotOf(obsd, Max(OkQueries(obsd)))

\* the same snapshot object, whatever app_url it was enriched with
SameSnapshot(a, b) == a.seq = b.seq /\ a.status = b.status

\* some query returned a running or a failure status
TerminalSeen(obsd) ==
    \E k \in OkQueries(obsd) : obsd[k].status \in RunningStatuses \cup FailureStatuses

CountEvents(log, ev) == Cardinality({ k \in 1..Len(log) : log[k].ev = ev })

----------------------------------------------------------------------------
(* C1 *)

\* C1: as soon as a status query returns a snapshot whose status equals
\* "running" case-insensitively the session is Succeeded: no further status
\* query is issued, onSuccess is invoked exactly once (after the enrichment
\* call settles) and no other terminal callback fires, and the call returns
\* that snapshot.
C1_RunningSucceeds ==
    \A i \in Sessions :
        LET obsd == observer[i].observed
            o == observer[i]
            m == monitor[i]
        IN  \A k \in OkQueries(obsd) :
                obsd[k].status \in RunningStatuses =>
                    /\ k = Len(obsd) /\ o.nQuery = k
                    /\ m.pc \in {"network", "done"}
                    /\ o.nFailure = 0 /\ o.nTimeout = 0
                    /\ o.nSuccess = IF m.pc = "done" THEN 1 ELSE 0
                    /\ m.pc = "done" =>
                          /\ SameSnapshot(m.ret, SnapshotOf(obsd, k))
                          /\ o.successArg = m.ret

\* a session that saw a non-running status, then "Running", and returned
\* before maxAttempts
C1_Witness ==
    \E i \in Sessions :
        LET obsd == observer[i].observed IN
        /\ monitor[i].pc = "done"
        /\ Len(obsd) = 2 /\ Len(obsd) < monitor[i].maxRetries
        /\ obsd[1].ok /\ obsd[1].status = StrStarting
        /\ obsd[2].ok /\ obsd[2].status = << 82, 117, 110, 110, 105, 110, 103 >>   \* "Running"
        /\ observer[i].nSuccess = 1

----------------------------------------------------------------------------
(* C2 *)

\* C2: when a status query returns a status that is not "running" and
\* contains "error" or "fail" (case-insensitively), the session is Failed:
\* onFailure is invoked once with that status and snapshot, no further status
\* query is issued, onSuccess and onTimeout are not invoked, and the call
\* returns that snapshot.
C2_FailureStops ==
    \A i \in Sessions :
        LET obsd == observer[i].observed
            o == observer[i]
            m == monitor[i]
        IN  \A k \in OkQueries(obsd) :
                obsd[k].status \in FailureStatuses =>
                    /\ k = Len(obsd) /\ o.nQuery = k
                    /\ m.pc = "done"
                    /\ o.nFailure = 1
                    /\ o.failureArg = [status |-> obsd[k].status, cvm |-> SnapshotOf(obsd, k)]
                    /\ o.nSuccess = 0 /\ o.nTimeout = 0
                    /\ m.ret = SnapshotOf(obsd, k)

\* the scripted scenario: "starting" then "failed" stops at attempt 2 of 4
C2_Witness ==
    \E i \in Sessions :
        LET obsd == observer[i].observed IN
        /\ monitor[i].pc = "done"
        /\ monitor[i].maxRetries = MaxAttempts
        /\ Len(obsd) = 2
        /\ obsd[1].ok /\ obsd[1].status = StrStarting
        /\ obsd[2].ok /\ obsd[2].status = << 102, 97, 105, 108, 101, 100 >>   \* "failed"
        /\ observer[i].nFailure = 1
        /\ observer[i].failureArg.status = << 102, 97, 105, 108, 101, 100 >>   \* "failed"

----------------------------------------------------------------------------
(* C3 *)

\* C3: when maxAttempts iterations complete without a running or failure
\* status having been observed, the session is TimedOut: the call returns
\* only after onTimeout was invoked exactly once with the last successfully
\* obtained snapshot (null if no query ever succeeded), and returns that value.
C3_TimedOut ==
    \A i \in Sessions :
        LET obsd == observer[i].observed
            o == observer[i]
            m == monitor[i]
        IN  (Len(obsd) = m.maxRetries /\ ~TerminalSeen(obsd) /\ m.pc \notin {"start", "pause"}) =>
                /\ m.pc = "done"
                /\ o.nTimeout = 1
                /\ o.timeoutArg = LastSnapshot(obsd)
                /\ m.ret = o.timeoutArg
                /\ o.nSuccess = 0 /\ o.nFailure = 0

\* a timed-out session whose last query failed after an earlier one succeeded
C3_Witness ==
    \E i \in Sessions :
        LET obsd == observer[i].observed IN
        /\ monitor[i].pc = "done"
        /\ monitor[i].maxRetries = 3 /\ Len(obsd) = 3
        /\ ~obsd[1].ok
        /\ obsd[2].ok /\ obsd[2].status = StrStarting
        /\ ~obsd[3].ok
        /\ observer[i].nTimeout = 1
        /\ observer[i].timeoutArg.seq = 2

----------------------------------------------------------------------------
(* C4 *)

TerminalCalls(o) == o.nSuccess + o.nFailure + o.nTimeout

AllCalls(o) == <<o.nSuccess, o.nFailure, o.nTimeout, o.nStatusChange, o.nError>>

\* C4: every call ends in exactly one of Succeeded, Failed, TimedOut: when the
\* call has returned exactly one of onSuccess, onFailure, onTimeout has been
\* invoked, exactly once; at no time more than one; and once one of them has
\* been invoked no callback is invoked any more.
C4_ExactlyOneTerminal ==
    /\ [](\A i \in Sessions :
            /\ TerminalCalls(observer[i]) <= 1
            /\ monitor[i].pc = "done" => TerminalCalls(observer[i]) = 1
            /\ monitor[i].pc # "threw")
    /\ [][\A i \in Sessions :
            TerminalCalls(observer[i]) >= 1 => AllCalls(observer'[i]) = AllCalls(observer[i])]_vars

\* a returned session that reported a query error and two status changes
\* before it ended Failed
C4_Witness ==
    \E i \in Sessions :
        /\ monitor[i].pc = "done"
        /\ observer[i].nFailure = 1
        /\ observer[i].nStatusChange = 2
        /\ observer[i].nError = 1

----------------------------------------------------------------------------
(* C5 *)

\* C5: a failing status query never makes the call reject: every failed
\* query has been reported through onError, the call returns only after a
\* terminal status or after maxAttempts iterations (a failed query does not
\* end the loop), it issues at most maxAttempts queries, and it returns the
\* last snapshot obtained, or null.
C5_QueryErrorsNeverTerminate ==
    \A i \in Sessions :
        LET obsd == observer[i].observed
            o == observer[i]
            m == monitor[i]
        IN  /\ m.pc # "threw"
            /\ o.nError = Cardinality(FailedQueries(obsd))
            /\ o.nQuery <= m.maxRetries
            /\ m.pc = "done" =>
                  /\ TerminalSeen(obsd) \/ Len(obsd) = m.maxRetries
                  /\ SameSnapshot(m.ret, LastSnapshot(obsd))

\* a returned session whose first and third of four queries failed
C5_Witness ==
    \E i \in Sessions :
        LET obsd == observer[i].observed IN
        /\ monitor[i].pc = "done"
        /\ Len(obsd) = 4
        /\ FailedQueries(obsd) = {1, 3}
        /\ observer[i].nError = 2
        /\ monitor[i].ret.seq = 4

----------------------------------------------------------------------------
(* C6 *)

\* C6: onError is invoked exactly once per failed status query, with the
\* error the query failed with, and at no other step; when all maxAttempts = N
\* queries failed, the returned call has invoked onError N times, onSuccess
\* and onFailure never, and onTimeout once with null.
C6_OnErrorPerFailedQuery ==
    /\ [](\A i \in Sessions :
            LET obsd == observer[i].observed
                o == observer[i]
            IN  (monitor[i].pc = "done" /\ OkQueries(obsd) = {}) =>
                    /\ Len(obsd) = monitor[i].maxRetries
                    /\ o.nError = monitor[i].maxRetries
                    /\ o.nSuccess = 0 /\ o.nFailure = 0
                    /\ o.nTimeout = 1 /\ o.timeoutArg = Null)
    /\ [][\A i \in Sessions :
            LET obsd == observer[i].observed
                obsd2 == observer'[i].observed
            IN  IF Len(obsd2) = Len(obsd) + 1 /\ ~obsd2[Len(obsd2)].ok
                THEN /\ observer'[i].nError = observer[i].nError + 1
                     /\ observer'[i].errorArg = transport[i].lastError
                ELSE observer'[i].nError = observer[i].nError]_vars

\* a session all MaxAttempts queries of which failed
C6_Witness ==
    \E i \in Sessions :
        /\ monitor[i].pc = "done"
        /\ monitor[i].maxRetries = MaxAttempts
        /\ FailedQueries(observer[i].observed) = 1..MaxAttempts
        /\ observer[i].nError = MaxAttempts
        /\ observer[i].nTimeout = 1

----------------------------------------------------------------------------
(* C7 *)

\* the scripted scenario: the session observed exactly starting, starting, running
ScenarioStartingStartingRunning(obsd) ==
    /\ Len(obsd) = 3
    /\ \A k \in 1..3 : obsd[k].ok
    /\ obsd[1].status = StrStarting
    /\ obsd[2].status = StrStarting
    /\ obsd[3].status = StrRunning

\* C7 as stated: the first status observed is a baseline that does not fire
\* onStatusChange, so that for starting, starting, running onStatusChange is
\* invoked exactly once, onSuccess once with the third snapshot, which is
\* returned.
C7_FirstStatusIsBaseline ==
    \A i \in Sessions :
        LET obsd == observer[i].observed
            o == observer[i]
        IN  (monitor[i].pc = "done" /\ ScenarioStartingStartingRunning(obsd)) =>
                /\ o.nStatusChange = 1
                /\ o.nSuccess = 1
                /\ SameSnapshot(o.successArg, SnapshotOf(obsd, 3))
                /\ monitor[i].ret = o.successArg

\* C7 amended: the first status observed is compared with the initial empty
\* lastStatus and fires onStatusChange whenever it is not the empty string;
\* for starting, starting, running onStatusChange is invoked exactly twice
\* (first and third observation), onSuccess once with the third snapshot,
\* which is returned.
C7_FirstStatusFires ==
    \A i \in Sessions :
        LET obsd == observer[i].observed
            o == observer[i]
        IN  /\ Cardinality(OkQueries(obsd)) = 1 =>
                  o.nStatusChange =
                      IF obsd[Max(OkQueries(obsd))].status = EmptyString THEN 0 ELSE 1
            /\ (monitor[i].pc = "done" /\ ScenarioStartingStartingRunning(obsd)) =>
                  /\ o.nStatusChange = 2
                  /\ o.nSuccess = 1
                  /\ SameSnapshot(o.successArg, SnapshotOf(obsd, 3))
                  /\ monitor[i].ret = o.successArg

\* the scripted scenario has run to its return
C7_Witness ==
    \E i \in Sessions :
        /\ monitor[i].pc = "done"
        /\ ScenarioStartingStartingRunning(observer[i].observed)
        /\ observer[i].nStatusChange = 2
        /\ monitor[i].ret.seq = 3

----------------------------------------------------------------------------
(* C8 *)

\* C8: onStatusChange is invoked per change, not per poll: a successful
\* observation that follows an earlier successful observation of the session
\* invokes onStatusChange exactly once if its status differs from that of the
\* previous successful observation and not at all if it is the same; no
\* other step invokes it.
C8_OncePerChange ==
    [][\A i \in Sessions :
          LET obsd == observer[i].observed
              obsd2 == observer'[i].observed
              fired == observer'[i].nStatusChange - observer[i].nStatusChange
          IN  IF Len(obsd2) = Len(obsd) + 1 /\ obsd2[Len(obsd2)].ok
              THEN OkQueries(obsd) # {} =>
                      fired = IF obsd2[Len(obsd2)].status = obsd[Max(OkQueries(obsd))].status
                              THEN 0 ELSE 1
              ELSE fired = 0]_vars

\* starting, starting, then a different status: two invocations over three polls
C8_Witness ==
    \E i \in Sessions :
        LET obsd == observer[i].observed IN
        /\ Len(obsd) = 3
        /\ \A k \in 1..3 : obsd[k].ok
        /\ obsd[1].status = StrStarting
        /\ obsd[2].status = StrStarting
        /\ obsd[3].status = EmptyString
        /\ observer[i].nStatusChange = 2
        /\ monitor[i].pc = "wait"

----------------------------------------------------------------------------
(* C9 *)

\* C9: every iteration counts toward maxAttempts whether its query succeeds
\* or fails: retryCount is the number of iterations that ran to the bottom of
\* the loop, and the number of status queries issued never exceeds
\* maxAttempts (none is issued when maxAttempts is 0).
C9_AttemptsBounded ==
    \A i \in Sessions :
        LET o == observer[i]
            m == monitor[i]
        IN  /\ o.nQuery <= m.maxRetries
            /\ Len(o.observed) <= o.nQuery
            /\ m.pc \in {"query", "pause"} => m.retryCount = o.nQuery - 1
            /\ m.pc = "wait" => m.retryCount = o.nQuery /\ Len(o.observed) = o.nQuery
            /\ (m.pc = "done" /\ ~TerminalSeen(o.observed)) => m.retryCount = m.maxRetries

\* a session that used all its attempts on failed and successful queries
C9_Witness ==
    \E i \in Sessions :
        LET obsd == observer[i].observed IN
        /\ monitor[i].pc = "done"
        /\ monitor[i].maxRetries = 3
        /\ observer[i].nQuery = 3
        /\ FailedQueries(obsd) = {2}
        /\ OkQueries(obsd) = {1, 3}

----------------------------------------------------------------------------
(* C10 *)

\* C10: when a failed query brings consecutiveErrors to the threshold 3, the
\* iteration awaits exactly one extended pause of 2 x interval, after which
\* the count is 2 (decremented by one, not reset); the pause is entered at no
\* other count.
C10_ExtendedPause ==
    /\ [](\A i \in Sessions : CountEvents(observer[i].iterLog, "pause") <= 1)
    /\ [][\A i \in Sessions :
            LET m == monitor[i]
                m2 == monitor'[i]
                log2 == observer'[i].iterLog
            IN  /\ (m.consecutiveErrors < 3 /\ m2.consecutiveErrors = 3) =>
                      /\ m2.pc = "pause"
                      /\ \E k \in 1..Len(log2) : log2[k] = Event("pause", Ms(2 * m.interval, 1))
                /\ (m.pc # "pause" /\ m2.pc = "pause") => m2.consecutiveErrors = 3
                /\ (m.pc = "pause" /\ m2.pc # "pause") =>
                      /\ m.consecutiveErrors = 3
                      /\ m2.consecutiveErrors = 2
                      /\ m2.elapsed = m.elapsed + 2 * m.interval
                      /\ CountEvents(log2, "pause") = 1]_vars

\* after three failed queries in a row the session has paused once and goes on
\* with a count of 2
C10_Witness ==
    \E i \in Sessions :
        /\ monitor[i].pc = "wait"
        /\ FailedQueries(observer[i].observed) = {1, 2, 3}
        /\ monitor[i].consecutiveErrors = 2
        /\ CountEvents(observer[i].iterLog, "pause") = 1

----------------------------------------------------------------------------
(* C11 *)

\* the number of failed queries at the end of obsd with no successful query
\* after them
TrailingFailures(obsd) ==
    IF OkQueries(obsd) = {} THEN Len(obsd) ELSE Len(obsd) - Max(OkQueries(obsd))

\* C11: every successful status query resets consecutiveErrors to zero, so
\* that an extended pause occurs only after at least three failed queries
\* with no successful query between them.
C11_SuccessResetsErrors ==
    /\ [](\A i \in Sessions :
            (monitor[i].pc = "pause" \/ CountEvents(observer[i].iterLog, "pause") > 0) =>
                TrailingFailures(observer[i].observed) >= 3)
    /\ [][\A i \in Sessions :
            LET obsd == observer[i].observed
                obsd2 == observer'[i].observed
            IN  (Len(obsd2) = Len(obsd) + 1 /\ obsd2[Len(obsd2)].ok) =>
                    monitor'[i].consecutiveErrors = 0]_vars

\* two failed queries, a successful one, a failed one: the count is 1 and the
\* session has not paused
C11_Witness ==
    \E i \in Sessions :
        /\ FailedQueries(observer[i].observed) = {1, 2, 4}
        /\ OkQueries(observer[i].observed) = {3}
        /\ monitor[i].consecutiveErrors = 1
        /\ CountEvents(observer[i].iterLog, "pause") = 0

----------------------------------------------------------------------------
(* C12 *)

\* twice the target (ms) of the wait after an iteration whose query outcome is
\* last in obsd: the target is interval, or interval / 2 after a failed query
TwiceSpecTarget(interval, obsd) ==
    IF obsd[Len(obsd)].ok THEN 2 * interval ELSE interval

\* twice a time of num / den milliseconds, den being 1 or 2
Twice(ms) == ms.num * (2 \div ms.den)

\* C12: the wait before the next iteration is max(0, target - elapsed), with
\* elapsed the time the iteration took and target interval/2 if its query
\* failed and interval otherwise; it is never negative, and no wait is made
\* when no further iteration follows (last attempt or terminal status).
C12_WaitTiming ==
    /\ [](\A i \in Sessions :
            LET m == monitor[i]
                o == observer[i]
                target2 == TwiceSpecTarget(m.interval, o.observed)
            IN  /\ m.pc = "wait" =>
                      /\ m.waitMs.den \in {1, 2}
                      /\ Twice(m.waitMs) >= 0
                      /\ Twice(m.waitMs) = IF target2 > 2 * m.elapsed
                                           THEN target2 - 2 * m.elapsed ELSE 0
                      /\ o.iterLog[Len(o.iterLog)] = Event("wait", m.waitMs)
                      /\ CountEvents(o.iterLog, "wait") = 1
                /\ m.pc \in {"network", "done"} => CountEvents(o.iterLog, "wait") = 0)
    /\ [][\A i \in Sessions :
            LET m == monitor[i]
                o2 == observer'[i]
            IN  (m.pc \in {"query", "pause"} /\ monitor'[i].pc \notin {"query", "pause"}) =>
                    (monitor'[i].pc = "wait") =
                        (Len(o2.observed) < m.maxRetries /\ ~TerminalSeen(o2.observed))]_vars

\* a failed query that took longer than interval / 2: the wait is clamped to 0
C12_Witness ==
    \E i \in Sessions :
        LET obsd == observer[i].observed IN
        /\ monitor[i].pc = "wait"
        /\ ~obsd[Len(obsd)].ok
        /\ 2 * monitor[i].elapsed > monitor[i].interval
        /\ monitor[i].waitMs = Ms(0, 1)

----------------------------------------------------------------------------
(* C13 *)

\* C13: once a running status is observed, a failure of the network-info
\* call does not change the outcome: the call returns the snapshot, without
\* app_url, after invoking onSuccess once; onError is not invoked for it and
\* onTimeout is not invoked.
C13_EnrichmentFailureIgnored ==
    /\ [](\A i \in Sessions :
            LET o == observer[i]
                m == monitor[i]
            IN  CountEvents(o.iterLog, "networkError") > 0 =>
                    /\ m.pc = "done"
                    /\ o.nSuccess = 1 /\ o.nTimeout = 0 /\ o.nFailure = 0
                    /\ o.nError = Cardinality(FailedQueries(o.observed))
                    /\ m.ret = SnapshotOf(o.observed, Len(o.observed))
                    /\ o.successArg = m.ret)
    /\ [][\A i \in Sessions :
            (monitor[i].pc = "network" /\ monitor'[i].pc # "network") =>
                /\ (transport[i].phase = "thrown") =
                       (CountEvents(observer'[i].iterLog, "networkError") = 1)
                /\ observer'[i].nSuccess = 1
                /\ observer'[i].nError = observer[i].nError
                /\ monitor'[i].pc = "done"]_vars

\* a session that returned a running snapshot although every request of the
\* network-info call failed
C13_Witness ==
    \E i \in Sessions :
        /\ monitor[i].pc = "done"
        /\ CountEvents(observer[i].iterLog, "networkError") = 1
        /\ observer[i].nHttpQuery = DefaultTransportRetries + 1
        /\ observer[i].nSuccess = 1
        /\ monitor[i].ret.app_url = NoUrl

----------------------------------------------------------------------------
(* C14 - C17: ApiClient.executeWithRetry *)

\* positions of the requests in an httpLog
Requests(log) == { k \in 1..Len(log) : log[k].ev = "request" }

\* positions of the delays in an httpLog
Delays(log) == { k \in 1..Len(log) : log[k].ev = "delay" }

\* the attempt number of the request at position k
AttemptNo(log, k) == Cardinality({ j \in Requests(log) : j <= k })

\* a failed attempt the retry policy does not retry: a response with status < 500
ClientError(e) == e.ev = "request" /\ ~e.ok /\ e.val # NoResponse /\ e.val < 500

\* a failed attempt the retry policy retries: no response, or status >= 500
Retryable(e) == e.ev = "request" /\ ~e.ok /\ (e.val = NoResponse \/ e.val >= 500)

\* the error object the attempt at position k rejected with
ErrorOf(log, k) == HttpError(log[k].val, AttemptNo(log, k))

\* C14: an attempt that fails with a response status below 500 is never
\* followed by another attempt or delay, and the call throws that error,
\* whether it was the first attempt or came after retryable failures.
C14_ClientErrorNotRetried ==
    \A i \in Sessions :
        LET log == observer[i].httpLog IN
        \A k \in Requests(log) :
            ClientError(log[k]) =>
                /\ k = Len(log)
                /\ monitor[i].pc \in {"apiwait", "apithrew"}
                /\ monitor[i].pc = "apiwait" =>
                      /\ transport[i].phase = "thrown"
                      /\ transport[i].lastError = ErrorOf(log, k)
                /\ monitor[i].pc = "apithrew" => monitor[i].thrown = ErrorOf(log, k)

\* a 404 on the second attempt, after a 503, with retries left: thrown at once
C14_Witness ==
    \E i \in Sessions :
        LET log == observer[i].httpLog IN
        /\ monitor[i].pc = "apithrew"
        /\ Len(log) = 3
        /\ log[1].ev = "request" /\ log[1].val = 503
        /\ log[3].ev = "request" /\ log[3].val = 404
        /\ monitor[i].thrown.status = 404
        /\ transport[i].maxRetries >= 2


\* C15: an attempt is followed by another one exactly when it failed with no
\* response or with a status >= 500 and fewer than maxRetries + 1 attempts
\* have been made; at most maxRetries + 1 attempts are made; a successful
\* attempt is the last one and its data is what the call returns.
C15_RetryPolicy ==
    \A i \in Sessions :
        LET log == observer[i].httpLog
            t == transport[i]
            m == monitor[i]
        IN  /\ Cardinality(Requests(log)) <= t.maxRetries + 1
            /\ \A k \in Requests(log) :
                  LET retried == Retryable(log[k]) /\ AttemptNo(log, k) <= t.maxRetries IN
                  /\ k < Len(log) => retried
                  /\ (k = Len(log) /\ retried) => (m.pc = "apiwait" /\ t.phase = "delay")
                  /\ (k = Len(log) /\ ~retried /\ m.pc = "apiwait") =>
                        t.phase \in {"returned", "thrown"}
                  /\ log[k].ok =>
                        /\ k = Len(log)
                        /\ m.pc \in {"apiwait", "apidone"}
                        /\ m.pc = "apiwait" => (t.phase = "returned" /\ t.data = log[k].body)
                        /\ m.pc = "apidone" => m.data = log[k].body

\* a call that returned the data of its third attempt, made after a failure
\* without response and a 500
C15_Witness ==
    \E i \in Sessions :
        LET log == observer[i].httpLog IN
        /\ monitor[i].pc = "apidone"
        /\ Len(log) = 5
        /\ log[1].val = NoResponse /\ ~log[1].ok
        /\ log[3].val = 500
        /\ log[5].ok
        /\ Len(monitor[i].data.public_urls) > 0
        /\ monitor[i].data = log[5].body

\* C16: every attempt after the first is immediately preceded by a delay,
\* the first attempt by none; each delay is twice the delay before it, so the
\* delays of one call are strictly increasing.
C16_BackoffBeforeRetry ==
    \A i \in Sessions :
        LET log == observer[i].httpLog IN
        /\ \A k \in Requests(log) :
              IF AttemptNo(log, k) = 1
              THEN k = 1
              ELSE k > 1 /\ log[k - 1].ev = "delay" /\ log[k - 1].val > 0
        /\ \A j, k \in Delays(log) :
              /\ (j < k /\ ~\E l \in Delays(log) : j < l /\ l < k) => log[k].val = 2 * log[j].val
              /\ j < k => log[j].val < log[k].val
        /\ transport[i].phase = "request" =>
              IF Requests(log) = {} THEN log = <<>> ELSE log[Len(log)].ev = "delay"

\* a call with three retries: three delays precede the fourth attempt
C16_Witness ==
    \E i \in Sessions :
        LET log == observer[i].httpLog IN
        /\ Cardinality(Requests(log)) = 4
        /\ Cardinality(Delays(log)) = 3
        /\ log[4].val = 2 * log[2].val
        /\ log[6].val = 2 * log[4].val

\* C17: a call whose attempts all failed with retryable errors, maxRetries + 1
\* of them, throws the error of the last attempt as it is; more generally a
\* call that throws throws the error of its last attempt.
C17_LastErrorThrown ==
    \A i \in Sessions :
        LET log == observer[i].httpLog IN
        monitor[i].pc = "apithrew" =>
            /\ log # <<>>
            /\ log[Len(log)].ev = "request"
            /\ monitor[i].thrown = ErrorOf(log, Len(log))
            /\ monitor[i].thrown.kind = "http"

\* retries exhausted with three different errors: the third one is thrown
C17_Witness ==
    \E i \in Sessions :
        LET log == observer[i].httpLog IN
        /\ monitor[i].pc = "apithrew"
        /\ transport[i].maxRetries = 2
        /\ Cardinality(Requests(log)) = 3
        /\ log[1].val = 500 /\ log[3].val = NoResponse /\ log[5].val = 503
        /\ monitor[i].thrown = HttpError(503, 3)

----------------------------------------------------------------------------
(* C18 - C20: PhalaCloud.deploy and PhalaCloud.upgrade *)

\* the required options of an operation
RequiredFields(op) ==
    IF op = "deploy" THEN {"type", "mode", "name", "compose"} ELSE {"name", "compose"}

\* the required options the caller left out
MissingFields(d) == { fld \in RequiredFields(d.op) : d.options[fld] = "" }

\* positions of the log entries of the given kind
Entries(log, ev) == { k \in 1..Len(log) : log[k].ev = ev }

\* C18: with a required option missing (deploy: type, mode, name, compose;
\* upgrade: name, compose) the call fails before anything else happens: no
\* HTTP request is issued, encryptSecrets is not invoked, nothing is read.
C18_ValidationFirst ==
    \A i \in Sessions :
        (deploy[i].pc # "idle" /\ deploy[i].op \in {"deploy", "upgrade"}
                               /\ MissingFields(deploy[i]) # {}) =>
            /\ deploy[i].pc \in {"start", "threw"}
            /\ deploy[i].pc = "threw" =>
                  /\ deploy[i].thrown.kind \in RequiredFields(deploy[i].op)
                  /\ deploy[i].thrown.status = NoResponse
            /\ observer[i].nHttp = 0
            /\ transport[i].phase = "idle"
            /\ deploy[i].nEncrypt = 0
            /\ deploy[i].log = <<>>

\* an upgrade without compose and with secrets in the env list has failed
C18_Witness ==
    \E i \in Sessions :
        /\ deploy[i].op = "upgrade"
        /\ deploy[i].pc = "threw"
        /\ deploy[i].options.name = "app"
        /\ deploy[i].options.compose = ""
        /\ Len(deploy[i].options.env) = 3
        /\ deploy[i].thrown = SdkError("compose")
        /\ observer[i].nHttp = 0

\* the slots of a list that are available and online
Qualifying(teepods) ==
    SelectSeq(teepods, LAMBDA tp : tp.available /\ tp.status = "online")

\* C19: a deploy without teepodId sends its key request only after a slot
\* query has returned a list with an available and online slot, the first of
\* which is the teepod_id of the configuration.
C19_SlotQueriedWhenUnpinned ==
    \A i \in Sessions :
        LET log == deploy[i].log IN
        (deploy[i].op = "deploy" /\ deploy[i].options.teepodId = Undefined) =>
            \A k \in Entries(log, "pubkey") :
                /\ \E q \in Entries(log, "teepods") : q < k
                /\ \E r \in Entries(log, "returned") :
                      /\ r < k
                      /\ Qualifying(log[r].body.data) # <<>>
                      /\ log[k].payload.config.teepod_id = Qualifying(log[r].body.data)[1].id

\* C20: the log of a deploy that succeeded is: configuration assembled, key
\* request with exactly that configuration, its response, encryptSecrets with
\* the returned key (when there are secrets), create request; the create
\* request has the configuration of the key request and the public key and
\* salt of the key response.
C20_DeployOrder ==
    \A i \in Sessions :
        LET d == deploy[i]
            log == d.log
            secrets == log[1].envs
            n == Len(log)
            config == log[3].payload.config
            answer == log[5].body
            create == log[n - 1].payload
        IN  (d.op = "deploy" /\ d.pc = "done") =>
              /\ [k \in 1..n |-> log[k].ev] =
                    <<"parseEnv", "readFile", "config", "pubkey", "returned">>
                    \o (IF secrets # <<>> THEN <<"encrypt">> ELSE <<>>)
                    \o <<"create", "returned">>
              /\ log[4].payload = ConfigPayload(config)
              /\ secrets # <<>> =>
                    /\ log[6].envs = secrets
                    /\ log[6].key = answer.app_env_encrypt_pubkey
                    /\ create.encrypted_env.plain = secrets
                    /\ create.encrypted_env.eph > 0
              /\ create.final
              /\ create.config = config
              /\ create.app_env_encrypt_pubkey = answer.app_env_encrypt_pubkey
              /\ create.app_env_encrypt_pubkey # EmptyString
              /\ create.app_id_salt = answer.app_id_salt
              /\ observer[i].nHttp >= 2
              /\ d.ret = log[n].body

\* a deploy with secrets that succeeded after its key request was retried
C20_Witness ==
    \E i \in Sessions :
        /\ deploy[i].op = "deploy"
        /\ deploy[i].pc = "done"
        /\ Len(deploy[i].log) = 8
        /\ deploy[i].log[6].key = KeyB
        /\ deploy[i].log[7].payload.app_id_salt = Salt
        /\ deploy[i].log[7].payload.config.teepod_id = 7
        /\ observer[i].nHttp = 3

----------------------------------------------------------------------------
(* C30: PhalaCloud.parseEnv *)

\* the strings parseEnv reads, in the order it reads them: the env list, then
\* the lines of the env file when a path is given and the file exists
SourceLines(options) ==
    options.env \o (IF options.envFile.path # "" /\ options.envFile.exists
                    THEN Split(options.envFile.content, 10)
                    ELSE <<>>)

\* positions of the separator in a line
Seps(line) == { k \in 1..Len(line) : line[k] = 61 }   \* "="

\* the key of a line: what precedes its first separator
KeyOf(line) == SubSeq(line, 1, (CHOOSE k \in Seps(line) : \A l \in Seps(line) : k <= l) - 1)

\* the value of a line: what follows its first separator, up to the next one
ValueOf(line) ==
    LET first == CHOOSE k \in Seps(line) : \A l \in Seps(line) : k <= l
        later == { k \in Seps(line) : k > first }
        stop == IF later = {} THEN Len(line) + 1
                ELSE CHOOSE k \in later : \A l \in later : k <= l
    IN  SubSeq(line, first + 1, stop - 1)

\* a line that defines a secret: a separator, a key and a value
Defines(line) == Seps(line) # {} /\ KeyOf(line) # <<>> /\ ValueOf(line) # <<>>

\* the lines of the env file parseEnv reads
FileLines(options) ==
    IF options.envFile.path # "" /\ options.envFile.exists
    THEN Split(options.envFile.content, 10)
    ELSE <<>>

\* the positions of the lines that define the key
Occurrences(lines, key) ==
    { p \in 1..Len(lines) : Defines(lines[p]) /\ KeyOf(lines[p]) = key }

\* the value of the last line that defines the key
LastValue(lines, key) ==
    ValueOf(lines[CHOOSE p \in Occurrences(lines, key) :
                      \A q \in Occurrences(lines, key) : q <= p])

\* the keys of the set keys that several lines of the env list define, or
\* that a line of the env list and a line of the env file define
WrittenAgain(options, keys) ==
    { key \in keys :
        \/ Cardinality(Occurrences(options.env, key)) >= 2
        \/ /\ Occurrences(options.env, key) # {}
           /\ Occurrences(FileLines(options), key) # {} }

\* what parseEnv returned is last-write-wins for the keys of the set keys: at
\* most one entry per key; a key the env list defines several times has the
\* value of its last occurrence in the list, unless the env file defines it
\* too; and a key both define has the value the env file gives it
LastWriteWins(d, keys) ==
    LET envs == d.options.envs
        list == d.options.env
        file == FileLines(d.options)
    IN  /\ d.log[1].ev = "parseEnv" /\ d.log[1].envs = envs
        /\ \A j, k \in 1..Len(envs) : j # k => envs[j].key # envs[k].key
        /\ \A key \in WrittenAgain(d.options, keys) :
              \E k \in 1..Len(envs) :
                  /\ envs[k].key = key
                  /\ envs[k].value = IF Occurrences(file, key) # {}
                                     THEN LastValue(file, key)
                                     ELSE LastValue(list, key)

\* the keys the lines of the options define
DefinedKeys(options) ==
    { KeyOf(SourceLines(options)[p]) :
        p \in { q \in 1..Len(SourceLines(options)) : Defines(SourceLines(options)[q]) } }

\* every entry parseEnv returned is the last definition of its key, the
\* lines of the env file coming after the env list
EntriesAreLastDefinitions(d) ==
    LET envs == d.options.envs
        src == SourceLines(d.options)
    IN  \A k \in 1..Len(envs) :
            /\ Occurrences(src, envs[k].key) # {}
            /\ envs[k].value = LastValue(src, envs[k].key)

\* C30 as stated: parseEnv returns at most one entry per key; a key that
\* occurs several times in the env list keeps the value of its last
\* occurrence, and an entry of the env file overrides an entry of the env
\* list with the same key.  For the key __proto__ the code keeps no value.
C30_LastWriteWins ==
    \A i \in Sessions :
        (deploy[i].pc \notin {"idle", "start"} /\ deploy[i].log # <<>>) =>
            LastWriteWins(deploy[i], DefinedKeys(deploy[i].options))

\* what the code does: the same for every key but __proto__, which never has
\* an entry; every other key a line defines has one, and every entry is the
\* last definition of its key
LastWriteWinsButProto ==
    \A i \in Sessions :
        (deploy[i].pc \notin {"idle", "start"} /\ deploy[i].log # <<>>) =>
            /\ LastWriteWins(deploy[i], DefinedKeys(deploy[i].options) \ {ProtoKey})
            /\ EntriesAreLastDefinitions(deploy[i])
            /\ \A key \in DefinedKeys(deploy[i].options) \ {ProtoKey} :
                  \E k \in 1..Len(deploy[i].options.envs) :
                      deploy[i].options.envs[k].key = key
            /\ \A k \in 1..Len(deploy[i].options.envs) :
                  deploy[i].options.envs[k].key # ProtoKey

\* the env list defines __proto__ twice and parseEnv returned no entry for it
ProtoDefinedTwice ==
    \E i \in Sessions :
        /\ deploy[i].pc \notin {"idle", "start"} /\ deploy[i].log # <<>>
        /\ Cardinality(Occurrences(deploy[i].options.env, ProtoKey)) = 2
        /\ \A k \in 1..Len(deploy[i].options.envs) :
              deploy[i].options.envs[k].key # ProtoKey

\* A=1, B=2, A=3 in the env list and B=9, D=4 in the env file give A=3, B=9, D=4
LastWriteWinsReached ==
    \E i \in Sessions :
        /\ deploy[i].pc = "readFile"
        /\ deploy[i].options.env = << EnvA1, EnvB2, EnvA3 >>
        /\ deploy[i].options.envFile.exists
        /\ deploy[i].options.envs = << [key |-> << 65 >>, value |-> << 51 >>],
                                       [key |-> << 66 >>, value |-> << 57 >>],
                                       [key |-> << 68 >>, value |-> << 52 >>] >>

----------------------------------------------------------------------------
(* C22, C23: PhalaCloud.deploy *)

\* the caller gave no secret: no line of the env list or env file defines one
NoSecrets(options) ==
    \A p \in 1..Len(SourceLines(options)) : ~Defines(SourceLines(options)[p])

\* parseEnv has run and returned no entry
SecretSetEmpty(d) == d.pc \notin {"idle", "start"} /\ d.log # <<>> /\ d.options.envs = <<>>

\* C22: a deploy with an empty secret set never invokes encryptSecrets; its
\* create request has an empty encrypted_env and is sent after the key
\* request, with the public key and the salt of the key response.
C22_EmptySecretsNotEncrypted ==
    \A i \in Sessions :
        LET d == deploy[i]
            log == d.log
        IN  (d.op = "deploy" /\ (NoSecrets(d.options) \/ SecretSetEmpty(d))) =>
              /\ d.nEncrypt = 0
              /\ d.pc # "encrypt"
              /\ Entries(log, "encrypt") = {}
              /\ d.pc = "done" => Entries(log, "create") # {}
              /\ \A k \in Entries(log, "create") :
                    /\ log[k].payload.encrypted_env = NoCipher
                    /\ log[k - 2].ev = "pubkey"
                    /\ log[k - 1].ev = "returned"
                    /\ log[k - 1].body.app_env_encrypt_pubkey # EmptyString
                    /\ log[k].payload.app_env_encrypt_pubkey = log[k - 1].body.app_env_encrypt_pubkey
                    /\ log[k].payload.app_id_salt = log[k - 1].body.app_id_salt

\* a deploy whose env list has no entry and whose env file does not exist,
\* that succeeded
C22_Witness ==
    \E i \in Sessions :
        LET d == deploy[i] IN
        /\ d.op = "deploy" /\ d.pc = "done"
        /\ d.options.env = <<>>
        /\ d.options.envFile.path # "" /\ ~d.options.envFile.exists
        /\ NoSecrets(d.options)
        /\ d.nEncrypt = 0
        /\ d.log[Len(d.log) - 1].ev = "create"
        /\ d.log[Len(d.log) - 1].payload.encrypted_env = NoCipher
        /\ d.log[Len(d.log) - 1].payload.app_env_encrypt_pubkey = KeyA
        /\ d.log[Len(d.log) - 1].payload.app_id_salt = Salt

\* the key request was rejected: its log entry is followed by a rejection
KeyRequestFailed(log) ==
    \E k \in Entries(log, "pubkey") : k < Len(log) /\ log[k + 1].ev = "rejected"

\* the key request was answered without a public key
KeyMissing(log) ==
    \E k \in Entries(log, "pubkey") :
        /\ k < Len(log) /\ log[k + 1].ev = "returned"
        /\ log[k + 1].body.app_env_encrypt_pubkey = EmptyString

\* encryptSecrets was invoked with a key of an odd number of hex digits
OddKeyEncrypted(log) ==
    \E k \in Entries(log, "encrypt") :
        LET key == log[k].key
            digits == IF Len(key) >= 2 /\ SubSeq(key, 1, 2) = << 48, 120 >>   \* "0x"
                      THEN Len(key) - 2 ELSE Len(key)
        IN  digits % 2 = 1

\* C23: when the key request fails after the transport's retries, or is
\* answered without a public key, or encryptSecrets fails, the deploy call
\* rejects with that error, the create request is never sent and nothing is
\* returned.
C23_FailureAborts ==
    /\ [](\A i \in Sessions :
            LET d == deploy[i]
                log == d.log
            IN  d.op = "deploy" =>
                  /\ KeyRequestFailed(log) =>
                        /\ d.pc = "threw" /\ d.thrown.kind = "http"
                        /\ ~shouldRetry(d.thrown) \/ observer[i].nHttp = DefaultTransportRetries + 1
                        /\ Entries(log, "create") = {}
                  /\ KeyMissing(log) =>
                        /\ d.pc = "threw" /\ d.thrown = SdkError("pubkey")
                        /\ Entries(log, "create") = {} /\ Entries(log, "encrypt") = {}
                  /\ (OddKeyEncrypted(log) /\ d.pc # "encrypt") =>
                        /\ d.pc = "threw" /\ d.thrown = SdkError("encryptSecrets")
                        /\ Entries(log, "create") = {}
                  /\ d.pc # "done" => d.ret = EmptyBody
                  /\ d.pc = "threw" => transport[i].phase = "idle")
    /\ [][\A i \in Sessions :
            (deploy[i].op = "deploy" /\ deploy[i].pc = "encrypt" /\ deploy'[i].pc # "encrypt") =>
                \/ /\ deploy'[i].pc = "create"
                   /\ deploy'[i].encrypted_env # NoCipher
                \/ /\ deploy'[i].pc = "threw"
                   /\ deploy'[i].thrown = SdkError("encryptSecrets")
                   /\ Entries(deploy'[i].log, "create") = {}
                   /\ observer'[i].nHttp = observer[i].nHttp]_vars

\* a deploy whose key request failed three times with a server error
C23_Witness ==
    \E i \in Sessions :
        LET d == deploy[i] IN
        /\ d.op = "deploy" /\ d.pc = "threw"
        /\ KeyRequestFailed(d.log)
        /\ observer[i].nHttp = 3
        /\ d.thrown.status = 503
        /\ Entries(d.log, "create") = {}

(***************************************************************************)
(* C24, C25: upgrade and updateCompose                                     *)
(***************************************************************************)

Replacing(d) == d.op \in {"upgrade", "updateCompose"}

\* the requests to the compose-replace operation
Replaces(log) == Entries(log, "compose") \cup Entries(log, "composePut")

\* the deployment an upgrade or updateCompose call is to replace
TargetApp(d) ==
    IF d.op = "upgrade" THEN <<"app_", d.options.name>>
    ELSE NormalIdentifier(d.options.identifier)

IsAppId(identifier) ==
    LET id == IF StartsWith(identifier, AppPrefix)
              THEN SubSeq(identifier, Len(AppPrefix) + 1, Len(identifier))
              ELSE identifier
    IN  \A k \in 1..Len(id) : IsHexDigit(id[k])

\* C24: upgrade and updateCompose first fetch the existing deployment, and
\* the only key they encrypt with is the one that fetch returned; they never
\* request a new key (nor a slot), and their final request goes to the
\* compose-replace operation of the deployment, never to create.  The
\* deployment fetched is the one replaced whenever the identifier is an
\* application id, bare or prefixed.
C24_UpgradeUsesBoundKey ==
    \A i \in Sessions :
        LET d == deploy[i]
            log == d.log
        IN  Replacing(d) =>
              /\ Entries(log, "pubkey") = {}
              /\ Entries(log, "teepods") = {}
              /\ Entries(log, "create") = {}
              /\ Cardinality(Entries(log, "cvm")) <= 1
              /\ Cardinality(Replaces(log)) <= 1
              /\ d.pc = "done" => Replaces(log) # {}
              /\ \A k \in Entries(log, "encrypt") \cup Replaces(log) :
                    \E c \in Entries(log, "cvm") :
                        /\ c + 1 < k
                        /\ log[c + 1].ev = "returned"
                        /\ log[k].ev = "encrypt" =>
                              log[k].key = log[c + 1].body.encrypted_env_pubkey
                        /\ log[k].ev # "encrypt" =>
                              /\ log[k].app = TargetApp(d)
                              /\ (d.op = "upgrade" \/ IsAppId(d.options.identifier)) =>
                                    log[k].app = log[c].app
              /\ \A k \in Entries(log, "compose") : d.op = "upgrade"
              /\ \A k \in Entries(log, "composePut") : d.op = "updateCompose"

\* an upgrade whose secrets were encrypted with the key of the deployment it
\* fetched, and whose compose request was answered
C24_Witness ==
    \E i \in Sessions :
        LET d == deploy[i] IN
        /\ d.op = "upgrade" /\ d.pc = "done"
        /\ Len(d.log) = 8
        /\ d.log[3].ev = "cvm"
        /\ d.log[4].body.encrypted_env_pubkey = KeyB
        /\ d.log[6].ev = "encrypt" /\ d.log[6].key = KeyB
        /\ d.log[7].ev = "compose"
        /\ d.log[7].payload.encrypted_env # NoCipher
        /\ d.ret.id = CreatedId

\* C25 as stated: in upgrade and updateCompose, when the secret set is not
\* empty it is encrypted with the key of the fetched deployment and the
\* encrypted field of the request is not empty.  The code encrypts only when
\* the fetched deployment also has a (truthy) key, and otherwise sends the
\* request without the secrets.
C25_SecretsEncryptedOnUpgrade ==
    \A i \in Sessions :
        LET d == deploy[i]
            log == d.log
        IN  Replacing(d) =>
              \A k \in Replaces(log) :
                  /\ HasSecrets(d.options.envs) =>
                        /\ log[k].payload.encrypted_env # NoCipher
                        /\ Entries(log, "encrypt") # {}
                  /\ log[k].payload.encrypted_env = NoCipher => ~HasSecrets(d.options.envs)

(***************************************************************************)
(* C21: one key and at most one encryption per deploy call                 *)
(***************************************************************************)

\* C21: in every deploy call, the first of an instance or a later one, at
\* most one key request is made and encryptSecrets is invoked at most once,
\* however often the transport retransmits the key request or the create
\* request; a call that encrypts or sends its create request has made
\* exactly one key request of its own, and the key it encrypts with and
\* forwards is the one that request returned, whatever key an earlier call
\* obtained; the draw of one encryption is not that of an earlier one.
C21_OneKeyPerCall ==
    \A i \in Sessions :
        LET d == deploy[i]
            log == d.log
        IN  d.op = "deploy" =>
              /\ Cardinality(Entries(log, "pubkey")) <= 1
              /\ d.nEncrypt <= 1
              /\ Cardinality(Entries(log, "encrypt")) = d.nEncrypt
              /\ Cardinality(Entries(log, "create")) <= 1
              /\ \A k \in Entries(log, "encrypt") \cup Entries(log, "create") :
                    \E p \in Entries(log, "pubkey") :
                        /\ p + 1 < k
                        /\ log[p + 1].ev = "returned"
                        /\ log[k].ev = "encrypt" =>
                              log[k].key = log[p + 1].body.app_env_encrypt_pubkey
                        /\ log[k].ev = "create" =>
                              /\ log[k].payload.app_env_encrypt_pubkey =
                                     log[p + 1].body.app_env_encrypt_pubkey
                              /\ log[k].payload.encrypted_env # NoCipher =>
                                    \A e \in 1..Len(d.earlier) :
                                        d.earlier[e].encrypted_env # NoCipher =>
                                           d.earlier[e].encrypted_env.eph #
                                              log[k].payload.encrypted_env.eph

\* a second deploy call on an instance whose first call obtained another
\* key: it encrypted once, with the key of its own request, and its create
\* request was answered at the second transmission
C21_Witness ==
    \E i \in Sessions :
        LET d == deploy[i] IN
        /\ d.op = "deploy" /\ d.pc = "done"
        /\ Len(d.earlier) = 1
        /\ d.earlier[1].pc = "done"
        /\ d.earlier[1].app_env_encrypt_pubkey = KeyA
        /\ d.earlier[1].encrypted_env # NoCipher
        /\ d.app_env_encrypt_pubkey = KeyB
        /\ d.nEncrypt = 1
        /\ d.encrypted_env.to = hexToUint8Array(KeyB)
        /\ observer[i].nHttpQuery = 2

(***************************************************************************)
(* C26, C27, C28: encryptSecrets                                           *)
(***************************************************************************)

\* the calls of encryptSecrets that have settled
Calls ==
    IF codec.pc = "ready"
    THEN { c \in 1..Len(codec.calls) : codec.calls[c].pc \in {"returned", "threw"} }
    ELSE {}

\* the calls that returned a string
Returned == { c \in Calls : codec.calls[c].pc = "returned" }

\* a key string with an odd number of digits or with a character that is no
\* hex digit, the optional 0x in front apart
Malformed(pubkey) ==
    LET digits == StripPrefix(pubkey) IN
    \/ Len(digits) % 2 # 0
    \/ \E k \in 1..Len(digits) : ~IsHexDigit(digits[k])

\* C26 as stated: encryptSecrets fails with the invalid-hex-string error of
\* hexToUint8Array, and returns nothing, whenever the key string has an odd
\* number of digits or contains a character that is no hex digit.  The code
\* tests the length only.
C26_MalformedKeyRejected ==
    \A c \in Calls :
        Malformed(codec.pubkey) =>
            /\ codec.calls[c].pc = "threw"
            /\ codec.calls[c].thrown = "hexToUint8Array"
            /\ codec.calls[c].out = EmptyString

\* the private keys whose public key the key string denotes
MatchingPrivateKeys(pubkey) ==
    IF HexThrows(pubkey) THEN {}
    ELSE { k \in RemotePrivateKeys : getPublicKey(k) = hexToUint8Array(pubkey) }

\* C27: for a valid 32-byte public key K and any secret set S, a call of
\* encryptSecrets that settles returns (32 + 12 + len + 16) * 2 lower-case
\* hex digits, len being the length in bytes of the encoded JSON text of S;
\* its bytes are the ephemeral public key of the call, the nonce of the call
\* and the ciphertext with its tag, in that order; and the holder of the
\* private key of K, slicing at 32 and at 44, deriving the shared secret,
\* checking the tag and decrypting, obtains the JSON text of S, which is the
\* text of no other secret set.
C27_Layout ==
    \A k \in MatchingPrivateKeys(codec.pubkey) : \A c \in Calls :
        LET call == codec.calls[c]
            text == TextEncode(Stringify(codec.envs))
            bytes == hexToUint8Array(call.out)
            ephemeral == SubSeq(bytes, 1, KeyBytes)
            nonce == SubSeq(bytes, KeyBytes + 1, KeyBytes + NonceBytes)
            rest == SubSeq(bytes, KeyBytes + NonceBytes + 1, Len(bytes))
            opened == AesGcmOpen(getSharedSecret(k, ephemeral), nonce, rest)
        IN  /\ call.pc = "returned"
            /\ Len(call.out) = (KeyBytes + NonceBytes + Len(text) + TagBytes) * 2
            /\ \A j \in 1..Len(call.out) :
                  \E h \in 1..Len(HexDigits) : call.out[j] = HexDigits[h]
            /\ ephemeral = getPublicKey(call.privateKey)
            /\ nonce = call.iv
            /\ opened = [ok |-> TRUE, data |-> text]
            /\ \A other \in SecretSets :
                  TextEncode(Stringify(other)) = text => other = codec.envs

\* a secret whose value holds characters of one, two, three and four bytes
\* and a lone surrogate, encrypted to a valid key: the JSON text is 53 code
\* units and 58 bytes long, the output 236 digits
C27_Witness ==
    /\ codec.pc = "ready"
    /\ MatchingPrivateKeys(codec.pubkey) = { RemotePrivateKey2 }
    /\ codec.pubkey \in ValidKeys
    /\ Len(codec.envs) = 1
    /\ Len(codec.envs[1].value) = 9
    /\ Len(Stringify(codec.envs)) = 53
    /\ Len(TextEncode(Stringify(codec.envs))) = 58
    /\ 1 \in Returned
    /\ Len(codec.calls[1].out) = 236

\* C28: with the random source of the platform no two calls of
\* encryptSecrets with the same S and K draw the same key pair or the same
\* nonce, whether they run one after the other or overlap, and any two that
\* return return different strings.  Each output starts with the ephemeral
\* public key and the nonce of its own call.  With any source, two calls that
\* drew the same key pair (two private keys with one public key are one key
\* pair) and the same nonce return the same string, and two that did not
\* return different strings: the output is a function of S, K and the draw,
\* the one a call running alone returns, whatever ran between its steps.
C28_FreshRandomness ==
    /\ \A a \in 1..Len(codec.calls) : \A b \in 1..Len(codec.calls) :
          (codec.pc = "ready" /\ codec.random = "system" /\ a # b) =>
              /\ getPublicKey(codec.calls[a].privateKey)
                     # getPublicKey(codec.calls[b].privateKey)
              /\ (codec.calls[a].iv # <<>> /\ codec.calls[b].iv # <<>>) =>
                     codec.calls[a].iv # codec.calls[b].iv
              /\ (a \in Returned /\ b \in Returned) =>
                     codec.calls[a].out # codec.calls[b].out
    /\ \A a \in Returned : \A b \in Returned :
          LET x == codec.calls[a]
              y == codec.calls[b]
              sameKeyPair == getPublicKey(x.privateKey) = getPublicKey(y.privateKey)
          IN  /\ SubSeq(x.out, 1, 2 * (KeyBytes + NonceBytes)) =
                    uint8ArrayToHex(getPublicKey(x.privateKey) \o x.iv)
              /\ x.out = encryptSecrets(codec.envs, codec.pubkey, x.privateKey, x.iv).out
              /\ (~sameKeyPair \/ x.iv # y.iv) => x.out # y.out
              /\ (sameKeyPair /\ x.iv = y.iv) => x.out = y.out

\* two calls with the random source of the platform, the second made while
\* the first was pending and returning before it, with different strings
C28_Witness ==
    /\ codec.pc = "ready"
    /\ codec.random = "system"
    /\ codec.envs # <<>>
    /\ codec.settled = << 2, 1 >>
    /\ Returned = { 1, 2 }
    /\ codec.calls[1].out # codec.calls[2].out

(***************************************************************************)
(* C29: sessions monitoring at the same time                               *)
(***************************************************************************)

\* what a session that runs alone holds once the queries of obsd have
\* completed, computed from their outcomes only: the consecutive errors
\* (before the extended pause, if one is due, has elapsed), the last status,
\* the callbacks fired, and the last query that succeeded
RECURSIVE Alone(_)
Alone(obsd) ==
    IF obsd = <<>>
    THEN [errors |-> 0, lastStatus |-> EmptyString, nStatusChange |-> 0,
          nError |-> 0, nFailure |-> 0, lastOk |-> 0]
    ELSE LET p == Alone(SubSeq(obsd, 1, Len(obsd) - 1))
             e == obsd[Len(obsd)]
             paused == IF p.errors >= maxConsecutiveErrors THEN p.errors - 1 ELSE p.errors
         IN  IF e.ok
             THEN [errors |-> 0,
                   lastStatus |-> e.status,
                   nStatusChange |-> p.nStatusChange + (IF e.status # p.lastStatus THEN 1 ELSE 0),
                   nError |-> p.nError,
                   nFailure |-> p.nFailure + (IF IsFailure(e.status) THEN 1 ELSE 0),
                   lastOk |-> Len(obsd)]
             ELSE [p EXCEPT !.errors = paused + 1, !.nError = @ + 1]

\* the session has what a session running alone has after the same query
\* outcomes
AsIfAlone(m, o) ==
    LET obsd == o.observed
        n == Len(obsd)
        a == Alone(obsd)
        succeeded == n > 0 /\ obsd[n].ok /\ IsRunning(obsd[n].status)
        failed == n > 0 /\ obsd[n].ok /\ IsFailure(obsd[n].status)
    IN  /\ m.pc # "threw"
        /\ o.nQuery = n + (IF m.pc = "query" THEN 1 ELSE 0)
        /\ m.retryCount = n - (IF m.pc = "pause" \/ succeeded \/ failed THEN 1 ELSE 0)
        /\ m.consecutiveErrors =
              (IF a.errors >= maxConsecutiveErrors /\ m.pc # "pause" THEN a.errors - 1 ELSE a.errors)
        /\ m.lastStatus = a.lastStatus
        /\ o.nStatusChange = a.nStatusChange
        /\ o.nError = a.nError
        /\ o.nFailure = a.nFailure
        /\ o.nSuccess = (IF succeeded /\ m.pc # "network" THEN 1 ELSE 0)
        /\ o.nTimeout = (IF m.pc = "done" /\ ~succeeded /\ m.retryCount >= m.maxRetries
                         THEN 1 ELSE 0)
        /\ m.pc = "done" =>
              IF a.lastOk = 0 THEN m.ret = Null
              ELSE /\ m.ret.seq = a.lastOk
                   /\ m.ret.status = obsd[a.lastOk].status

\* C29: two sessions monitoring at the same time share no mutable state: a
\* step of one session changes nothing of the other, and under every
\* interleaving each session's attempt count, consecutive-error count, last
\* status, callbacks fired and return value are those of a session running
\* alone with the same query outcomes.
C29_SessionsIsolated ==
    /\ [](\A i \in DOMAIN monitor : AsIfAlone(monitor[i], observer[i]))
    /\ [][\E i \in DOMAIN monitor : \A j \in DOMAIN monitor \ {i} :
              /\ monitor'[j] = monitor[j]
              /\ transport'[j] = transport[j]
              /\ observer'[j] = observer[j]]_vars

\* session 1 is in its extended pause after three failed queries while
\* session 2, started with the same options, has succeeded at its second query
C29_Witness ==
    /\ DOMAIN monitor = ConcurrentSessions
    /\ monitor[1].pc = "pause" /\ monitor[1].consecutiveErrors = maxConsecutiveErrors
    /\ monitor[2].pc = "done" /\ monitor[2].consecutiveErrors = 0
    /\ monitor[2].retryCount = 1
    /\ monitor[2].ret # Null
    /\ observer[2].nSuccess = 1 /\ observer[2].nError = 0
    /\ observer[1].nError = 3

(***************************************************************************)
(* C31: sustained errors                                                   *)
(***************************************************************************)

\* C31: in a run of consecutive failed queries, the first and the second
\* failure are followed by no extended pause, and every failure from the
\* third onward is followed by one extended pause of 2 x interval; the pause
\* is awaited before the iteration ends.
C31_NoOscillation ==
    [][\A i \in Sessions :
          LET obsd == observer[i].observed
              obsd2 == observer'[i].observed
              m2 == monitor'[i]
          IN  (Len(obsd2) = Len(obsd) + 1 /\ ~obsd2[Len(obsd2)].ok) =>
                 IF TrailingFailures(obsd2) >= 3
                 THEN /\ m2.pc = "pause"
                      /\ m2.waitMs = Ms(2 * m2.interval, 1)
                      /\ CountEvents(observer'[i].iterLog, "pause") = 1
                 ELSE /\ m2.pc # "pause"
                      /\ CountEvents(observer'[i].iterLog, "pause") = 0]_vars

\* the fourth failed query in a row: the session pauses again, as it did
\* after the third
C31_Witness ==
    \E i \in Sessions :
        /\ monitor[i].pc = "pause"
        /\ FailedQueries(observer[i].observed) = {1, 2, 3, 4}
        /\ monitor[i].consecutiveErrors = 3
        /\ monitor[i].waitMs = Ms(2 * monitor[i].interval, 1)

(***************************************************************************)
(* C32: the delays of executeWithRetry                                     *)
(***************************************************************************)

\* C32 as stated: the first retry of a call is preceded by a delay of 1000 ms
\* and each later retry by twice the delay of the retry before it.  The code
\* computes Math.pow(2, retryCount) * 1000 with retryCount already 1 at the
\* first retry.
C32_DelaysFromOneSecond ==
    \A i \in Sessions :
        LET log == observer[i].httpLog IN
        \A k \in Delays(log) :
            IF \A j \in Delays(log) : j >= k
            THEN log[k].val = 1000
            ELSE \E j \in Delays(log) :
                    /\ j < k
                    /\ ~\E l \in Delays(log) : j < l /\ l < k
                    /\ log[k].val = 2 * log[j].val

----------------------------------------------------------------------------
(* C33 *)

\* C33: consecutiveErrors is between 0 and 3 inclusive in every reachable
\* state, and at most 2 at the start of every iteration: when the loop body
\* is entered and while its status query is pending.
C33_ErrorCountBounded ==
    /\ [](\A i \in Sessions :
             /\ monitor[i].consecutiveErrors \in 0..maxConsecutiveErrors
             /\ monitor[i].pc = "query" =>
                   monitor[i].consecutiveErrors <= maxConsecutiveErrors - 1)
    /\ [][\A i \in Sessions :
             observer'[i].nQuery = observer[i].nQuery + 1 =>
                /\ monitor[i].consecutiveErrors <= maxConsecutiveErrors - 1
                /\ monitor'[i].consecutiveErrors = monitor[i].consecutiveErrors]_vars

\* the iteration after the extended pause starts with a count of 2
C33_Witness ==
    \E i \in Sessions :
        /\ monitor[i].pc = "query"
        /\ observer[i].nQuery = 4
        /\ FailedQueries(observer[i].observed) = {1, 2, 3}
        /\ monitor[i].consecutiveErrors = 2

----------------------------------------------------------------------------
(* C34 *)

\* C34: a failed status query leaves the last observed status and the last
\* snapshot unchanged.  The step that completes a failed query and the steps
\* of its catch block write neither; hence a successful observation that
\* follows a run of failed queries invokes onStatusChange iff its status
\* differs from the one observed before the run, and onTimeout receives the
\* snapshot of the most recent successful query although later queries failed.
C34_FailureKeepsStatus ==
    /\ [][\A i \in Sessions :
             LET obsd == observer[i].observed
                 obsd2 == observer'[i].observed
                 grew == Len(obsd2) = Len(obsd) + 1
                 fired == observer'[i].nStatusChange - observer[i].nStatusChange
             IN  /\ (grew /\ ~obsd2[Len(obsd2)].ok) \/ monitor[i].pc = "pause" =>
                       /\ monitor'[i].lastStatus = monitor[i].lastStatus
                       /\ monitor'[i].finalCvm = monitor[i].finalCvm
                       /\ fired = 0
                 /\ (grew /\ obsd2[Len(obsd2)].ok /\ TrailingFailures(obsd) > 0
                          /\ OkQueries(obsd) # {}) =>
                       fired = IF obsd2[Len(obsd2)].status = obsd[Max(OkQueries(obsd))].status
                               THEN 0 ELSE 1]_vars
    /\ [](\A i \in Sessions :
             LET obsd == observer[i].observed IN
             (observer[i].nTimeout = 1 /\ TrailingFailures(obsd) > 0) =>
                 observer[i].timeoutArg = LastSnapshot(obsd))

\* starting, a failed query, starting again, a failed query, time-out: one
\* status change, and onTimeout receives the snapshot of the third query
C34_Witness ==
    \E i \in Sessions :
        LET obsd == observer[i].observed IN
        /\ monitor[i].pc = "done"
        /\ Len(obsd) = 4
        /\ obsd[1].ok /\ obsd[1].status = StrStarting
        /\ ~obsd[2].ok
        /\ obsd[3].ok /\ obsd[3].status = StrStarting
        /\ ~obsd[4].ok
        /\ observer[i].nStatusChange = 1
        /\ observer[i].nTimeout = 1
        /\ observer[i].timeoutArg.seq = 3

----------------------------------------------------------------------------
(* C35 *)

\* positions of the invocations of a callback in the log of an iteration
Positions(log, ev) == { k \in 1..Len(log) : log[k].ev = ev }

\* the last status query returned a running or failure status that differs
\* from the status of the successful query before it (from '' if there is none)
TerminalChange(obsd) ==
    /\ obsd # <<>>
    /\ obsd[Len(obsd)].ok
    /\ obsd[Len(obsd)].status \in RunningStatuses \cup FailureStatuses
    /\ LET before == SubSeq(obsd, 1, Len(obsd) - 1) IN
       obsd[Len(obsd)].status #
           (IF OkQueries(before) = {} THEN EmptyString
            ELSE before[Max(OkQueries(before))].status)

\* C35: when a status query returns a terminal status (running, or containing
\* error or fail) that differs from the previously observed status,
\* onStatusChange is invoked once for that status in the same iteration, by
\* the step that completes the query, and every invocation of onSuccess or
\* onFailure of the iteration comes strictly after it.
C35_ChangeBeforeTerminal ==
    /\ [](\A i \in Sessions :
             LET obsd == observer[i].observed
                 log == observer[i].iterLog
             IN  TerminalChange(obsd) =>
                    /\ Cardinality(Positions(log, "onStatusChange")) = 1
                    /\ observer[i].statusChangeArg = obsd[Len(obsd)].status
                    /\ \A k \in Positions(log, "onSuccess") \cup Positions(log, "onFailure") :
                          \A j \in Positions(log, "onStatusChange") : j < k
                    /\ obsd[Len(obsd)].status \in FailureStatuses =>
                          Positions(log, "onFailure") # {})
    /\ [][\A i \in Sessions :
             (Len(observer'[i].observed) = Len(observer[i].observed) + 1
                 /\ TerminalChange(observer'[i].observed)) =>
                 /\ observer'[i].nStatusChange = observer[i].nStatusChange + 1
                 /\ observer[i].nSuccess = 0 /\ observer[i].nFailure = 0]_vars

\* starting, then Running: the second iteration reports the change and, after
\* the network query, the success
C35_Witness ==
    \E i \in Sessions :
        LET obsd == observer[i].observed
            log == observer[i].iterLog
        IN  /\ monitor[i].pc = "done"
            /\ Len(obsd) = 2
            /\ obsd[1].ok /\ obsd[1].status = StrStarting
            /\ obsd[2].ok /\ obsd[2].status \in RunningStatuses
            /\ Len(log) = 2
            /\ log[1].ev = "onStatusChange" /\ log[2].ev = "onSuccess"
            /\ observer[i].nStatusChange = 2 /\ observer[i].nSuccess = 1

----------------------------------------------------------------------------
(* C36 *)

\* the HTTP requests of the status queries of a call: all its requests but
\* those of the network query that follows a running status
StatusRequests(m, o) == IF m.deploymentSuccessful THEN o.nHttp - o.nHttpQuery ELSE o.nHttp

\* C36: every status query goes through the retrying transport.  A status
\* query completes after between 1 and DefaultTransportRetries + 1 HTTP
\* requests, each issued by the transport; onError is invoked for an iteration
\* only when the transport has thrown, with a client error or after
\* DefaultTransportRetries + 1 requests; and a monitor call issues at most
\* maxRetries x (DefaultTransportRetries + 1) HTTP status requests, where
\* maxRetries is the maxAttempts of the call.
C36_QueriesThroughTransport ==
    /\ [][\A i \in Sessions :
             LET m == monitor[i]
                 o == observer[i]
                 t == transport[i]
             IN  /\ Len(observer'[i].observed) = Len(o.observed) + 1 =>
                       /\ o.nHttpQuery \in 1..(DefaultTransportRetries + 1)
                       /\ t.kind = "status"
                 /\ observer'[i].nError = o.nError + 1 =>
                       /\ t.phase = "thrown"
                       /\ \/ (t.lastError.status # NoResponse /\ t.lastError.status < 500)
                          \/ o.nHttpQuery = DefaultTransportRetries + 1
                       /\ t.lastError.req = o.nHttpQuery
                 /\ (m.pc = "query" /\ observer'[i].nHttp = o.nHttp + 1) =>
                       /\ t.kind = "status" /\ t.phase = "request"
                       /\ t.maxRetries = DefaultTransportRetries]_vars
    /\ [](\A i \in Sessions :
             /\ StatusRequests(monitor[i], observer[i])
                   <= monitor[i].maxRetries * (DefaultTransportRetries + 1)
             /\ StatusRequests(monitor[i], observer[i])
                   <= observer[i].nQuery * (DefaultTransportRetries + 1)
             /\ observer[i].nQuery <= monitor[i].maxRetries)

\* a call of two attempts whose six status requests all failed with a
\* retryable error: the largest number of requests the call can issue
C36_Witness ==
    \E i \in Sessions :
        /\ monitor[i].pc = "done"
        /\ monitor[i].maxRetries = 2
        /\ FailedQueries(observer[i].observed) = {1, 2}
        /\ StatusRequests(monitor[i], observer[i]) = 2 * (DefaultTransportRetries + 1)
        /\ observer[i].nError = 2

----------------------------------------------------------------------------
(* C37 *)

\* C37: provided every request and every timed delay eventually completes, a
\* monitorDeploymentStatus call eventually returns, having started at most
\* maxRetries (its maxAttempts) iterations, and an apiClient call eventually
\* returns or throws, having issued at most maxRetries + 1 requests (the
\* maxRetries of the ApiClient).
C37_Terminates ==
    /\ \A i \in Sessions :
          /\ monitor[i].pc = "start" ~> monitor[i].pc = "done"
          /\ monitor[i].pc = "api" ~> monitor[i].pc \in {"apidone", "apithrew"}
          /\ transport[i].phase \in {"request", "delay"} ~>
                transport[i].phase \in {"returned", "thrown"}
    /\ [](\A i \in Sessions :
             /\ observer[i].nQuery <= monitor[i].maxRetries
             /\ observer[i].nHttpQuery <= transport[i].maxRetries + 1
             /\ monitor[i].pc = "done" => monitor[i].retryCount <= monitor[i].maxRetries)

\* a monitor call that returned after three iterations whose every request
\* failed with a server error: nine requests, three failed queries, one
\* extended pause
C37_Witness ==
    \E i \in Sessions :
        /\ monitor[i].pc = "done"
        /\ monitor[i].maxRetries = 3
        /\ monitor[i].retryCount = 3
        /\ FailedQueries(observer[i].observed) = {1, 2, 3}
        /\ observer[i].nHttp = 3 * (DefaultTransportRetries + 1)
        /\ CountEvents(observer[i].iterLog, "pause") = 1
        /\ observer[i].nTimeout = 1

----------------------------------------------------------------------------
(* C38 *)

\* the callback was invoked in the step and throws
Threw(i, cb, before, after) == after = before + 1 /\ cb \in monitor[i].throwing

\* what the catch block does with an error caught after the query succeeded:
\* the count, reset to 0 by the query, is incremented, onError receives the
\* error, the iteration is counted and the call does not reject
HandledAsError(i, err) ==
    /\ observer'[i].nError = observer[i].nError + 1
    /\ observer'[i].errorArg = err
    /\ monitor'[i].consecutiveErrors = 1
    /\ monitor'[i].thisLoopHadError
    /\ monitor'[i].retryCount = monitor[i].retryCount + 1
    /\ monitor'[i].pc # "threw"
    /\ observer'[i].iterLog[Len(observer'[i].iterLog)
                              - (IF monitor'[i].pc = "wait" \/ observer'[i].nTimeout = 1
                                 THEN 1 ELSE 0)].ev = "onError"

\* C38: an exception thrown by onStatusChange, onSuccess or onFailure is
\* caught by the catch block of the loop body like a failed status query:
\* consecutiveErrors is incremented and onError is invoked with the
\* exception, once per exception, and the call never rejects.  After a
\* throwing onStatusChange or onFailure the session is not stopped: it waits
\* for the next iteration, or times out when maxAttempts is reached.  A
\* throwing onSuccess ends the loop, since deploymentSuccessful is already set.
C38_CallbackExceptionIsError ==
    /\ [][\A i \in Sessions :
             LET o == observer[i]
                 o2 == observer'[i]
                 m2 == monitor'[i]
                 continues ==
                     IF m2.retryCount < m2.maxRetries
                     THEN m2.pc = "wait" /\ o2.nTimeout = 0
                     ELSE m2.pc = "done" /\ o2.nTimeout = 1
             IN  /\ Threw(i, "onStatusChange", o.nStatusChange, o2.nStatusChange) =>
                       /\ HandledAsError(i, CallbackError("onStatusChange"))
                       /\ o2.nSuccess = o.nSuccess /\ o2.nFailure = o.nFailure
                       /\ ~m2.deploymentSuccessful
                       /\ continues
                 /\ Threw(i, "onFailure", o.nFailure, o2.nFailure) =>
                       /\ HandledAsError(i, CallbackError("onFailure"))
                       /\ continues
                 /\ Threw(i, "onSuccess", o.nSuccess, o2.nSuccess) =>
                       /\ HandledAsError(i, CallbackError("onSuccess"))
                       /\ m2.pc = "done" /\ o2.nTimeout = 0
                       /\ m2.ret = m2.finalCvm]_vars
    /\ [](\A i \in Sessions :
             LET o == observer[i]
                 thrown(cb, n) == IF cb \in monitor[i].throwing THEN n ELSE 0
             IN  /\ monitor[i].pc # "threw"
                 /\ o.nError = Cardinality(FailedQueries(o.observed))
                                 + thrown("onStatusChange", o.nStatusChange)
                                 + thrown("onFailure", o.nFailure)
                                 + thrown("onSuccess", o.nSuccess))

\* onFailure throws: the failure status is observed three times, onFailure
\* and onError are invoked three times each, and the call times out
C38_Witness ==
    \E i \in Sessions :
        LET obsd == observer[i].observed IN
        /\ monitor[i].throwing = {"onFailure"}
        /\ monitor[i].pc = "done"
        /\ monitor[i].maxRetries = 3
        /\ Len(obsd) = 3
        /\ \A k \in 1..3 : obsd[k].ok /\ obsd[k].status \in FailureStatuses
        /\ observer[i].nStatusChange = 1
        /\ observer[i].nFailure = 3
        /\ observer[i].nError = 3
        /\ observer[i].nTimeout = 1

----------------------------------------------------------------------------
(* C39 *)

\* the requests that carry encrypted_env
FinalRequests(log) ==
    { k \in 1..Len(log) : log[k].ev \in {"create", "compose", "composePut"} }

\* C39: in deploy, upgrade and updateCompose the secret set that is encrypted
\* is the result of parseEnv on the env list and the env file of the options:
\* the call overwrites options.envs with it before anything reads it, every
\* call of encryptSecrets receives it, and the encrypted_env of every final
\* request is either empty or its encryption, whatever envs array the caller
\* supplied.
C39_SecretsFromParseEnv ==
    /\ [](\A i \in Sessions :
             LET d == deploy[i]
                 secrets == parseEnv(d.options.env, d.options.envFile)
             IN  (d.pc \notin {"idle", "start"} /\ d.log # <<>>) =>
                    /\ d.options.envs = secrets
                    /\ \A k \in 1..Len(d.log) :
                          d.log[k].ev = "encrypt" => d.log[k].envs = secrets
                    /\ \A k \in FinalRequests(d.log) :
                          \/ d.log[k].payload.encrypted_env = NoCipher
                          \/ d.log[k].payload.encrypted_env.plain = secrets)
    /\ [][\A i \in Sessions :
             (deploy[i].pc = "start" /\ deploy'[i].pc = "readFile") =>
                /\ deploy'[i].options.envs =
                      parseEnv(deploy[i].options.env, deploy[i].options.envFile)
                /\ deploy'[i].log[1].ev = "parseEnv"
                /\ deploy'[i].callerEnvs = deploy[i].options.envs]_vars

\* an updateCompose whose caller passed envs [X=9] next to an env list and an
\* env file: what is encrypted and sent is A=3, B=9, D=4
C39_Witness ==
    \E i \in Sessions :
        LET d == deploy[i] IN
        /\ d.op = "updateCompose" /\ d.pc = "done"
        /\ d.callerEnvs = << [key |-> << 88 >>, value |-> << 57 >>] >>
        /\ d.options.env = << EnvA1, EnvB2, EnvA3 >>
        /\ d.options.envFile.exists
        /\ d.nEncrypt = 1
        /\ \E k \in FinalRequests(d.log) :
              d.log[k].payload.encrypted_env.plain =
                  << [key |-> << 65 >>, value |-> << 51 >>],
                     [key |-> << 66 >>, value |-> << 57 >>],
                     [key |-> << 68 >>, value |-> << 52 >>] >>

====
